---- MODULE Spec2Model ----
(***************************************************************************)
(* xiao-asgi: the connection state machines (xiao_asgi/connections.py),    *)
(* the response rendering they consume and the connection factory.         *)
(*                                                                         *)
(* Representation.                                                         *)
(*   - A message type such as "http.response.start" is the sequence of its *)
(*     dot-separated segments <<"http", "response", "start">>, so that     *)
(*     str.split(".") is the sequence itself, split(".")[0] is Head and    *)
(*     the two-target unpacking "protocol, type = ....split('.')" succeeds *)
(*     exactly when the sequence has two elements.                         *)
(*   - bytes are sequences of byte values; an Optional value is the empty  *)
(*     sequence (None) or a one-element sequence.                          *)
(*   - The transport is the log `sent` of the messages awaited on _send,   *)
(*     in order, and the count `nreceive` of awaits on _receive; what the  *)
(*     transport delivers to a receive is chosen by the environment.       *)
(*   - `last` records the call that was made last: its name, arguments,    *)
(*     the state it started from, the exception it raised ("none" when it  *)
(*     returned) and its return value.                                     *)
(***************************************************************************)
EXTENDS Integers, Sequences, FiniteSets, TLC

VARIABLES
    conn,               \* the connection object built by make_connection
    connection_status,  \* HttpConnection.connection_status
    connection_state,   \* WebSocketConnection.connection_state
    sent,               \* messages delivered to the transport send primitive
    nreceive,           \* number of awaits of the transport receive primitive
    last,               \* the last call and its outcome
    application,        \* the Xiao object shared by the calls in flight
    connections,        \* the connection objects, in the order of their creation
    transports,         \* per call: what its send got, how often its receive ran
    calls               \* per call of the application: its local variables

handling == <<application, connections, transports, calls>>
vars == <<conn, connection_status, connection_state, sent, nreceive, last,
          application, connections, transports, calls>>

---------------------------------------------------------------------------
(* Bounds of the model.                                                    *)

MaxSent == 4
MaxReceive == 2
MaxChunks == 3
MaxRoutes == 2

---------------------------------------------------------------------------
(* Values.                                                                 *)

None == <<>>
Some(x) == <<x>>

NoConn == [cls |-> "none"]

(* The calls of the application that may be in flight together, and the    *)
(* local variables of a call that has not been made.                       *)
CallIds == {1, 2}
Idle ==
    [pc |-> "idle", scope |-> [type |-> "none"], message |-> [type |-> <<>>],
     route |-> 0, connection |-> 0, step |-> 0]

StartArgs ==
    { [status |-> 200, headers |-> <<>>],
      [status |-> 404, headers |-> << <<"server", "x">> >>] }
Bodies == {<<>>, <<104, 105>>}
ChunkLists == {<<>>, << <<104>> >>}
AcceptArgs ==
    { [subprotocol |-> None, headers |-> <<>>],
      [subprotocol |-> Some("v1"), headers |-> << <<"server", "x">> >>] }
CloseCodes == {1000, 1011}
Texts == {"hi"}

ScopeTypes == {"http", "websocket", "unknown"}
Scopes == [type : ScopeTypes, path : {"/"}]
Receives == {"receive"}
Sends == {"send"}

HttpStart(status, headers) ==
    [type |-> <<"http", "response", "start">>, status |-> status, headers |-> headers]

HttpBody(body, more_body) ==
    [type |-> <<"http", "response", "body">>, body |-> body, more_body |-> more_body]

WsAccept(subprotocol, headers) ==
    [type |-> <<"websocket", "accept">>, subprotocol |-> subprotocol, headers |-> headers]

(* Mutant: a close message that always carries the default code.          *)
WsClose_default_code(code) ==
    [type |-> <<"websocket", "close">>, code |-> 1000]

WsClose(code) ==
    [type |-> <<"websocket", "close">>, code |-> code]

(* CloseResponse(code=1000): the constructor, code being optional.         *)
CloseResponse(code) ==
    [kind |-> "CloseResponse", code |-> IF code = None THEN 1000 ELSE code[1]]

(* Responses, as the objects the callers construct.                        *)
BodyResponses ==
    { [kind |-> "BodyResponse", status |-> a.status, headers |-> a.headers, body |-> b] :
        a \in StartArgs, b \in Bodies }
StreamResponses ==
    [kind : {"StreamResponse"}, status : {200}, headers : {<<>>}, body : ChunkLists]
AcceptResponses ==
    [kind : {"AcceptResponse"}, subprotocol : {None, Some("v1")}, headers : {<<>>}]
MessageResponses ==
    [kind : {"MessageResponse"}, bytes : {Some(<<104>>)}, text : {None}]
CloseResponses ==
    [kind : {"CloseResponse"}, code : CloseCodes]

HttpResponses == BodyResponses \cup StreamResponses
WebSocketResponses == AcceptResponses \cup MessageResponses \cup CloseResponses

(* What the transport may deliver to a receive on a websocket scope.       *)
WsInbound ==
    { [type |-> <<"websocket", "connect">>],
      [type |-> <<"websocket", "receive">>, text |-> "hi"],
      [type |-> <<"websocket", "disconnect">>, code |-> 1001],
      [type |-> <<"http", "disconnect">>],
      [type |-> <<"websocket", "http", "request">>] }

(* What the transport may deliver to a receive on an http scope.           *)
HttpInbound ==
    { [type |-> <<"http", "request">>, body |-> <<33>>, more_body |-> FALSE],
      [type |-> <<"http", "request">>, body |-> <<104, 105>>, more_body |-> TRUE],
      [type |-> <<"http", "disconnect">>],
      [type |-> <<"http", "response", "start">>],
      [type |-> <<"websocket", "connect">>] }

(* Messages handed to Connection.send directly.                            *)
SendMessages ==
    { [type |-> <<"http", "response", "start">>, status |-> 200, headers |-> <<>>],
      [type |-> <<"websocket", "close">>, code |-> 1000] }

(* dict without one key: "del request['type']".                            *)
Without(m, key) == [f \in (DOMAIN m) \ {key} |-> m[f]]

Request(protocol, type, data) == [protocol |-> protocol, type |-> type, data |-> data]

---------------------------------------------------------------------------
(* Text: a str is the sequence of its code points, bytes the sequence of   *)
(* its byte values. The texts of the model stay below code point 256, the  *)
(* range in which encode("latin-1") is defined.                            *)

(* str.lower(), on code points below 256.                                  *)
LowerChar(c) ==
    IF (c >= 65 /\ c <= 90) \/ (c >= 192 /\ c <= 222 /\ c # 215) THEN c + 32 ELSE c
Lower(s) == [i \in 1..Len(s) |-> LowerChar(s[i])]

(* str.encode("latin-1"): a code point below 256 is its own byte.          *)
EncodeLatin1(s) == [i \in 1..Len(s) |-> s[i]]

(* str.encode("utf-8"): one, two or three bytes per code point.            *)
Utf8Char(c) ==
    IF c < 128 THEN <<c>>
    ELSE IF c < 2048 THEN <<192 + (c \div 64), 128 + (c % 64)>>
    ELSE <<224 + (c \div 4096), 128 + ((c \div 64) % 64), 128 + (c % 64)>>
RECURSIVE EncodeUtf8(_)
EncodeUtf8(s) ==
    IF s = <<>> THEN <<>> ELSE Utf8Char(Head(s)) \o EncodeUtf8(Tail(s))

(* str.encode(charset).                                                    *)
Encode(s, charset) ==
    IF charset = "utf-8" THEN EncodeUtf8(s) ELSE EncodeLatin1(s)

(* str(n) for n >= 0, in decimal digits.                                   *)
RECURSIVE IntToStr(_)
IntToStr(n) ==
    IF n < 10 THEN <<48 + n>> ELSE IntToStr(n \div 10) \o <<48 + (n % 10)>>

(* The charset names, as text.                                             *)
CharsetName(charset) ==
    IF charset = "utf-8"
    THEN <<117, 116, 102, 45, 56>>      \* "utf-8"
    ELSE <<108, 97, 116, 105, 110, 45, 49>>    \* "latin-1"

ContentLength ==    \* b"content-length"
    <<99, 111, 110, 116, 101, 110, 116, 45, 108, 101, 110, 103, 116, 104>>
ContentType ==      \* b"content-type"
    <<99, 111, 110, 116, 101, 110, 116, 45, 116, 121, 112, 101>>
CharsetEquals ==    \* b"; charset="
    <<59, 32, 99, 104, 97, 114, 115, 101, 116, 61>>
TextPlain ==        \* "text/plain"
    <<116, 101, 120, 116, 47, 112, 108, 97, 105, 110>>
TextHtml ==         \* "text/html"
    <<116, 101, 120, 116, 47, 104, 116, 109, 108>>

(* The media_type attribute of the response classes.                       *)
media_type(kind) ==
    IF kind = "PlainTextResponse" THEN TextPlain ELSE TextHtml

(* Text responses as their callers construct them: headers is a dict, in   *)
(* insertion order; body is a str or bytes.                                *)
Str(s) == [str |-> TRUE, val |-> s]
Bytes(b) == [str |-> FALSE, val |-> b]

TextKinds == {"PlainTextResponse", "HtmlResponse"}
TextStatuses == {200, 404}
TextHeaders ==
    { <<>>,
      \* {"Server": "S", "Etag": "E"}
      << <<<<83, 101, 114, 118, 101, 114>>, <<83>>>>,
         <<<<69, 116, 97, 103>>, <<69>>>> >>,
      \* {"Content-Type": "t/x"}
      << <<<<67, 111, 110, 116, 101, 110, 116, 45, 84, 121, 112, 101>>,
           <<116, 47, 120>>>> >>,
      \* {"X-A": "e", "content-type": "t/x"}
      << <<<<88, 45, 65>>, <<101>>>>,
         <<<<99, 111, 110, 116, 101, 110, 116, 45, 116, 121, 112, 101>>,
           <<116, 47, 120>>>> >> }
TextBodies ==
    { Bytes(<<>>),
      Bytes(<<78, 111, 116, 32, 70, 111, 117, 110, 100>>),    \* b"Not Found"
      Str(<<97, 98, 99>>),    \* "abc"
      Str(<<233, 33>>) }    \* e-acute, "!"
Charsets == {"utf-8", "latin-1"}
TextResponses ==
    [kind : TextKinds, status : TextStatuses, headers : TextHeaders,
     body : TextBodies, charset : Charsets]

(* Response.render_headers.                                                *)
Response_render_headers(response) ==
    LET rendered_headers ==
            [i \in 1..Len(response.headers) |->
                <<EncodeLatin1(Lower(response.headers[i][1])),
                  EncodeLatin1(response.headers[i][2])>>]
        content_length == IntToStr(Len(response.body.val))
    IN  rendered_headers
        \o << <<ContentLength, EncodeLatin1(content_length)>> >>
        \o << <<ContentType, EncodeLatin1(media_type(response.kind))>> >>

(* TextResponse.render_body.                                               *)
Text_render_body(response) ==
    IF ~response.body.str THEN response.body.val
    ELSE Encode(response.body.val, response.charset)

(* TextResponse.render_headers: the charset statement goes to the first    *)
(* rendered header named content-type.                                     *)
Text_render_headers(response) ==
    LET rendered_headers == Response_render_headers(response)
        found == {key \in 1..Len(rendered_headers) :
                     rendered_headers[key][1] = ContentType}
        first == CHOOSE key \in found : \A other \in found : key <= other
    IN  IF found = {} THEN rendered_headers
        ELSE [rendered_headers EXCEPT
                 ![first] = <<ContentType,
                              rendered_headers[first][2] \o CharsetEquals
                              \o EncodeLatin1(CharsetName(response.charset))>>]

---------------------------------------------------------------------------
(* Response rendering: Response.render_messages of each variant.           *)

(* Mutant: the chunks rendered in reverse order.                           *)
RECURSIVE StreamBodies_reversed(_)
StreamBodies_reversed(chunks) ==
    IF chunks = <<>> THEN <<>>
    ELSE StreamBodies_reversed(Tail(chunks))
         \o <<[type |-> <<"http", "response", "body">>,
                body |-> Head(chunks), more_body |-> TRUE]>>

RECURSIVE StreamBodies(_)
StreamBodies(chunks) ==
    IF chunks = <<>> THEN <<>>
    ELSE <<HttpBody(Head(chunks), TRUE)>> \o StreamBodies(Tail(chunks))

(* The number of chunks the rendering of a stream takes from its body.     *)
RECURSIVE StreamTaken(_)
StreamTaken(chunks) ==
    IF chunks = <<>> THEN 0 ELSE 1 + StreamTaken(Tail(chunks))

(* Mutant: rendering that leaves out the closing body message of a stream. *)
render_messages_unterminated(response) ==
    IF response.kind = "StreamResponse"
    THEN << [type |-> <<"http", "response", "start">>,
             status |-> response.status, headers |-> response.headers] >>
         \o StreamBodies(response.body)
    ELSE << [type |-> <<"http", "response", "start">>,
             status |-> response.status, headers |-> response.headers],
            [type |-> <<"http", "response", "body">>,
             body |-> <<>>, more_body |-> FALSE] >>

render_messages(response) ==
    CASE response.kind = "BodyResponse" ->
            << HttpStart(response.status, response.headers),
               HttpBody(response.body, FALSE) >>
      [] response.kind = "StreamResponse" ->
            << HttpStart(response.status, response.headers) >>
            \o StreamBodies(response.body)
            \o << HttpBody(<<>>, FALSE) >>
      [] response.kind = "AcceptResponse" ->
            << WsAccept(response.subprotocol, response.headers) >>
      [] response.kind = "MessageResponse" ->
            << [type |-> <<"websocket", "send">>,
                bytes |-> response.bytes, text |-> response.text] >>
      [] response.kind = "CloseResponse" ->
            << WsClose(response.code) >>
      [] response.kind \in TextKinds ->
            << HttpStart(response.status, Text_render_headers(response)),
               HttpBody(Text_render_body(response), FALSE) >>

---------------------------------------------------------------------------
(* Connection (base class).                                                *)

(* Connection.__init__: the ValueError of the type check is constructed    *)
(* and dropped, never raised; the three attributes are always stored.      *)
Connection_init(cls, protocol, scope, receive, send) ==
    [cls |-> cls, protocol |-> protocol, scope |-> scope,
     receive |-> receive, send |-> send]

(* Mutant: Connection.send without the check of the protocol.              *)
Connection_send_unchecked(protocol, sent0, response) ==
    [exc |-> "none", sent |-> Append(sent0, response)]

(* Connection.send: the outcome of one call, given the log so far.         *)
Connection_send(protocol, sent0, response) ==
    LET response_protocol == Head(response.type) IN
    IF response_protocol # protocol
    THEN [exc |-> "ProtocolMismatch", sent |-> sent0]
    ELSE [exc |-> "none", sent |-> Append(sent0, response)]

(* Connection.receive is called by HttpConnection.receive_request but is   *)
(* not defined in connections.py; it follows the documented contract: one  *)
(* message is pulled and its protocol prefix must be the connection's.     *)
(* `message` is what the transport delivers.                               *)
Connection_receive(protocol, message) ==
    LET message_protocol == Head(message.type) IN
    IF message_protocol # protocol
    THEN [exc |-> "ProtocolMismatch", ret |-> None]
    ELSE [exc |-> "none", ret |-> Some(message)]

---------------------------------------------------------------------------
(* HttpConnection.                                                         *)

(* send_start and send_body are called by the tests but are not defined in *)
(* connections.py; they follow the documented contract: send_start only    *)
(* in state open (then closing), send_body only in state closing (then     *)
(* closed unless more_body).                                               *)

(* Mutant: send_start without the check of the state.                      *)
send_start_unguarded(protocol, status0, sent0, status, headers) ==
    LET r == Connection_send(protocol, sent0, HttpStart(status, headers)) IN
    [exc |-> r.exc, sent |-> r.sent,
     connection_status |-> IF r.exc = "none" THEN "closing" ELSE status0]

send_start(protocol, status0, sent0, status, headers) ==
    IF status0 # "open"
    THEN [exc |-> "InvalidConnectionState", sent |-> sent0, connection_status |-> status0]
    ELSE LET r == Connection_send(protocol, sent0, HttpStart(status, headers)) IN
         [exc |-> r.exc, sent |-> r.sent,
          connection_status |-> IF r.exc = "none" THEN "closing" ELSE status0]

(* Mutant: send_body that closes the connection whatever more_body is.     *)
send_body_always_closes(protocol, status0, sent0, data, more_body) ==
    IF status0 # "closing"
    THEN [exc |-> "InvalidConnectionState", sent |-> sent0, connection_status |-> status0]
    ELSE LET r == Connection_send(protocol, sent0, HttpBody(data, more_body)) IN
         [exc |-> r.exc, sent |-> r.sent,
          connection_status |-> IF r.exc = "none" THEN "closed" ELSE status0]

send_body(protocol, status0, sent0, data, more_body) ==
    IF status0 # "closing"
    THEN [exc |-> "InvalidConnectionState", sent |-> sent0, connection_status |-> status0]
    ELSE LET r == Connection_send(protocol, sent0, HttpBody(data, more_body)) IN
         [exc |-> r.exc, sent |-> r.sent,
          connection_status |->
              IF r.exc = "none" /\ ~more_body THEN "closed" ELSE status0]

(* HttpConnection.receive_request, `message` being what the transport      *)
(* delivers. detail: the segments of the type an exception names.          *)
Http_receive_request(protocol, message) ==
    LET r == Connection_receive(protocol, message) IN
    IF r.exc # "none"
    THEN [exc |-> r.exc, detail |-> None, ret |-> None]
    ELSE LET request == r.ret[1]
             parts == request.type
         IN  IF Len(parts) # 2
             THEN [exc |-> "ValueError", detail |-> None, ret |-> None]
             ELSE IF parts[2] # "request"
             THEN [exc |-> "TypeMismatch", detail |-> Some(<<parts[2]>>), ret |-> None]
             ELSE [exc |-> "none", detail |-> None,
                   ret |-> Some(Request(parts[1], parts[2], Without(request, "type")))]

(* Mutant: stream_requests that ends after its first request.              *)
stream_requests_first_only(protocol, inbox) ==
    IF inbox = <<>>
    THEN [exc |-> "blocked", yielded |-> <<>>, pulled |-> 0]
    ELSE LET r == Http_receive_request(protocol, Head(inbox)) IN
         IF r.exc # "none"
         THEN [exc |-> r.exc, yielded |-> <<>>, pulled |-> 1]
         ELSE [exc |-> "none", yielded |-> <<r.ret[1]>>, pulled |-> 1]

(* HttpConnection.stream_requests, consumed to its end, `inbox` being what *)
(* the transport delivers, in order: the requests yielded, the number of   *)
(* messages pulled, and the exception that ended it ("blocked": the inbox  *)
(* ran out before the generator ended).                                    *)
RECURSIVE stream_requests(_, _)
stream_requests(protocol, inbox) ==
    IF inbox = <<>>
    THEN [exc |-> "blocked", yielded |-> <<>>, pulled |-> 0]
    ELSE LET r == Http_receive_request(protocol, Head(inbox)) IN
         IF r.exc # "none"
         THEN [exc |-> r.exc, yielded |-> <<>>, pulled |-> 1]
         ELSE LET request == r.ret[1] IN
              IF ~request.data.more_body
              THEN [exc |-> "none", yielded |-> <<request>>, pulled |-> 1]
              ELSE LET rest == stream_requests(protocol, Tail(inbox)) IN
                   [exc |-> rest.exc,
                    yielded |-> <<request>> \o rest.yielded,
                    pulled |-> 1 + rest.pulled]

(* body += request.data["body"] over the streamed requests.                *)
RECURSIVE JoinBodies(_)
JoinBodies(requests) ==
    IF requests = <<>> THEN <<>>
    ELSE Head(requests).data.body \o JoinBodies(Tail(requests))

(* HttpConnection.get_requests_body.                                       *)
get_requests_body(protocol, inbox) ==
    LET r == stream_requests(protocol, inbox) IN
    [exc |-> r.exc, pulled |-> r.pulled,
     ret |-> IF r.exc # "none" THEN None
             ELSE Some(Request(protocol, "request",
                               [body |-> JoinBodies(r.yielded), more_body |-> FALSE]))]

(* The loop of HttpConnection.send_response over the rendered messages.    *)
RECURSIVE SendEach(_, _, _)
SendEach(protocol, sent0, messages) ==
    IF messages = <<>> THEN [exc |-> "none", sent |-> sent0]
    ELSE LET r == Connection_send(protocol, sent0, Head(messages)) IN
         IF r.exc # "none" THEN r
         ELSE SendEach(protocol, r.sent, Tail(messages))

(* Mutant: send_response that stops after the first rendered message.      *)
Http_send_response_first_only(protocol, status0, sent0, response) ==
    LET r == SendEach(protocol, sent0, <<Head(render_messages(response))>>) IN
    [exc |-> r.exc, sent |-> r.sent, connection_status |-> status0]

(* HttpConnection.send_response: connection_status is neither read nor    *)
(* written.                                                                *)
Http_send_response(protocol, status0, sent0, response) ==
    LET r == SendEach(protocol, sent0, render_messages(response)) IN
    [exc |-> r.exc, sent |-> r.sent, connection_status |-> status0]

---------------------------------------------------------------------------
(* WebSocketConnection.                                                    *)

(* Mutant: accept_connection that does not pass the subprotocol on.        *)
accept_connection_no_subprotocol(protocol, sent0, subprotocol, headers) ==
    [exc |-> "none",
     sent |-> Append(sent0, [type |-> <<protocol, "accept">>,
                             subprotocol |-> None, headers |-> headers]),
     connection_state |-> "accepted"]

(* accept_connection: awaits _send directly, then sets the state.          *)
accept_connection(protocol, sent0, subprotocol, headers) ==
    [exc |-> "none",
     sent |-> Append(sent0, [type |-> <<protocol, "accept">>,
                             subprotocol |-> subprotocol, headers |-> headers]),
     connection_state |-> "accepted"]

(* Mutant: close_connection that marks the connection connected.           *)
close_connection_wrong_state(protocol, sent0, code) ==
    [exc |-> "none",
     sent |-> Append(sent0, [type |-> <<protocol, "close">>, code |-> code]),
     connection_state |-> "connected"]

(* close_connection: awaits _send directly, then sets the state.           *)
close_connection(protocol, sent0, code) ==
    [exc |-> "none",
     sent |-> Append(sent0, [type |-> <<protocol, "close">>, code |-> code]),
     connection_state |-> "closed"]

send_bytes(protocol, sent0, data) ==
    [exc |-> "none",
     sent |-> Append(sent0, [type |-> <<protocol, "send">>, bytes |-> data])]

send_text(protocol, sent0, data) ==
    [exc |-> "none",
     sent |-> Append(sent0, [type |-> <<protocol, "send">>, text |-> data])]

(* Mutant: receive_request that treats every message type like connect.    *)
WebSocket_receive_request_always_connected(state0, request) ==
    IF state0 = "disconnected"
    THEN [exc |-> "InvalidConnectionState", pulled |-> FALSE,
          connection_state |-> state0, ret |-> None]
    ELSE LET parts == request.type IN
         IF Len(parts) # 2
         THEN [exc |-> "ValueError", pulled |-> TRUE,
               connection_state |-> state0, ret |-> None]
         ELSE [exc |-> "none", pulled |-> TRUE,
               connection_state |-> "connected",
               ret |-> Some(Request(parts[1], parts[2], Without(request, "type")))]

(* Mutant: receive_request without the check of the disconnected state.    *)
WebSocket_receive_request_unguarded(state0, request) ==
    LET parts == request.type IN
    IF Len(parts) # 2
    THEN [exc |-> "ValueError", pulled |-> TRUE,
          connection_state |-> state0, ret |-> None]
    ELSE [exc |-> "none", pulled |-> TRUE,
          connection_state |->
              IF parts[2] = "connect" THEN "connected"
              ELSE IF parts[2] = "disconnect" THEN "disconnected"
              ELSE state0,
          ret |-> Some(Request(parts[1], parts[2], Without(request, "type")))]

(* WebSocketConnection.receive_request, `request` being what the transport *)
(* delivers if it is asked. pulled: whether _receive was awaited.          *)
WebSocket_receive_request(state0, request) ==
    IF state0 = "disconnected"
    THEN [exc |-> "InvalidConnectionState", pulled |-> FALSE,
          connection_state |-> state0, ret |-> None]
    ELSE LET parts == request.type IN
         IF Len(parts) # 2
         THEN [exc |-> "ValueError", pulled |-> TRUE,
               connection_state |-> state0, ret |-> None]
         ELSE LET protocol == parts[1]
                  type == parts[2]
              IN  [exc |-> "none", pulled |-> TRUE,
                   connection_state |->
                       IF type = "connect" THEN "connected"
                       ELSE IF type = "disconnect" THEN "disconnected"
                       ELSE state0,
                   ret |-> Some(Request(protocol, type, Without(request, "type")))]

(* send_response is called by WebSocketRoute but is not defined in         *)
(* connections.py; it follows the documented contract: the single rendered *)
(* message is sent with the transition of the operation that sends such a  *)
(* message (accept_connection, close_connection), and a response           *)
(* inconsistent with the state is refused. connection_state holds what the *)
(* client did ("connected", "disconnected", written by receive_request) or *)
(* what the application did ("accepted", "closed"). Inconsistent are: any  *)
(* response once the application has disconnected (the case the docstring  *)
(* of InvalidConnectionState names), and an accept once the application    *)
(* has accepted. A connection on which websocket.connect has been          *)
(* received is the one an accept is for: WebSocketRoute.connect sends it   *)
(* right after that receive.                                               *)

(* The lifecycle value a connection_state stands for: accept_connection    *)
(* and close_connection write "accepted" and "closed".                     *)
Lifecycle(state) ==
    IF state = "accepted" THEN "connected"
    ELSE IF state = "closed" THEN "disconnected"
    ELSE state

(* Whether a rendered message is inconsistent with the state.              *)
Inconsistent(state, message) ==
    \/ state = "closed"
    \/ message.type = <<"websocket", "accept">> /\ state = "accepted"

(* Mutant: send_response that sends whatever the state is.                 *)
WebSocket_send_response_unguarded(protocol, state0, sent0, response) ==
    LET message == Head(render_messages(response))
        r == Connection_send(protocol, sent0, message)
    IN  [exc |-> r.exc, sent |-> r.sent,
         connection_state |->
             IF r.exc # "none" THEN state0
             ELSE IF message.type = <<"websocket", "accept">> THEN "accepted"
             ELSE IF message.type = <<"websocket", "close">> THEN "closed"
             ELSE state0]

(* WebSocketConnection.send_response.                                      *)
WebSocket_send_response(protocol, state0, sent0, response) ==
    LET message == Head(render_messages(response)) IN
    IF Inconsistent(state0, message)
    THEN [exc |-> "InvalidConnectionState", sent |-> sent0, connection_state |-> state0]
    ELSE LET r == Connection_send(protocol, sent0, message) IN
         [exc |-> r.exc, sent |-> r.sent,
          connection_state |->
              IF r.exc # "none" THEN state0
              ELSE IF message.type = <<"websocket", "accept">> THEN "accepted"
              ELSE IF message.type = <<"websocket", "close">> THEN "closed"
              ELSE state0]

---------------------------------------------------------------------------
(* The connection factory.                                                 *)

protocols == [http |-> "HttpConnection", websocket |-> "WebSocketConnection"]

(* The protocol attribute of each connection class.                        *)
ClassProtocol(cls) == IF cls = "HttpConnection" THEN "http" ELSE "websocket"

(* Mutant: make_connection that hands receive and send over swapped.       *)
make_connection_swapped(scope, receive, send) ==
    IF scope.type \in DOMAIN protocols
    THEN LET cls == protocols[scope.type] IN
         [exc |-> "none",
          ret |-> Connection_init(cls, ClassProtocol(cls), scope, send, receive)]
    ELSE [exc |-> "ProtocolUnknown", ret |-> NoConn]

(* Mutant: make_connection that falls back to an HTTP connection.          *)
make_connection_http_fallback(scope, receive, send) ==
    LET cls == IF scope.type \in DOMAIN protocols
               THEN protocols[scope.type] ELSE "HttpConnection"
    IN  [exc |-> "none",
         ret |-> Connection_init(cls, ClassProtocol(cls), scope, receive, send)]

make_connection(scope, receive, send) ==
    IF scope.type \in DOMAIN protocols
    THEN LET cls == protocols[scope.type] IN
         [exc |-> "none",
          ret |-> Connection_init(cls, ClassProtocol(cls), scope, receive, send)]
    ELSE [exc |-> "ProtocolUnknown", ret |-> NoConn]

---------------------------------------------------------------------------
(* The state machine: one call per step.                                   *)

Pre ==
    [sent |-> sent, connection_status |-> connection_status,
     connection_state |-> connection_state, nreceive |-> nreceive]

Outcome(op, args, exc, ret) ==
    [op |-> op, args |-> args, pre |-> Pre, exc |-> exc, ret |-> ret]

IsHttp == conn.cls = "HttpConnection"
IsWebSocket == conn.cls = "WebSocketConnection"

Init ==
    /\ conn = NoConn
    /\ connection_status = "absent"
    /\ connection_state = "absent"
    /\ sent = <<>>
    /\ nreceive = 0
    /\ last = [op |-> "none", args |-> <<>>, pre |-> <<>>, exc |-> "none", ret |-> None]
    /\ application = None
    /\ connections = <<>>
    /\ transports = [t \in CallIds |-> [sent |-> <<>>, nreceive |-> 0]]
    /\ calls = [t \in CallIds |-> Idle]

(* make_connection(scope, receive, send); the constructors give            *)
(* connection_status "open" and connection_state "connecting".             *)
Call_make_connection ==
    /\ conn = NoConn
    /\ \E scope \in Scopes, receive \in Receives, send \in Sends :
          LET r == make_connection(scope, receive, send) IN
          /\ conn' = r.ret
          /\ connection_status' =
                IF r.ret.cls = "HttpConnection" THEN "open" ELSE "absent"
          /\ connection_state' =
                IF r.ret.cls = "WebSocketConnection" THEN "connecting" ELSE "absent"
          /\ last' = Outcome("make_connection",
                             [scope |-> scope, receive |-> receive, send |-> send],
                             r.exc, None)
    /\ UNCHANGED <<sent, nreceive>>
    /\ UNCHANGED handling

Call_send_start ==
    /\ IsHttp
    /\ Len(sent) < MaxSent
    /\ \E a \in StartArgs :
          LET status == a.status
              headers == a.headers
              r == send_start(conn.protocol, connection_status, sent, status, headers)
          IN
          /\ sent' = r.sent
          /\ connection_status' = r.connection_status
          /\ last' = Outcome("send_start", [status |-> status, headers |-> headers],
                             r.exc, None)
    /\ UNCHANGED <<conn, connection_state, nreceive>>
    /\ UNCHANGED handling

Call_send_body ==
    /\ IsHttp
    /\ Len(sent) < MaxSent
    /\ \E data \in Bodies, more_body \in BOOLEAN :
          LET r == send_body(conn.protocol, connection_status, sent, data, more_body) IN
          /\ sent' = r.sent
          /\ connection_status' = r.connection_status
          /\ last' = Outcome("send_body", [data |-> data, more_body |-> more_body],
                             r.exc, None)
    /\ UNCHANGED <<conn, connection_state, nreceive>>
    /\ UNCHANGED handling

Call_Http_send_response ==
    /\ IsHttp
    /\ \E response \in HttpResponses :
          /\ Len(sent) + Len(render_messages(response)) <= MaxSent
          /\ LET r == Http_send_response(conn.protocol, connection_status, sent, response) IN
             /\ sent' = r.sent
             /\ connection_status' = r.connection_status
             /\ last' = Outcome("send_response", [response |-> response], r.exc, None)
    /\ UNCHANGED <<conn, connection_state, nreceive>>
    /\ UNCHANGED handling

Call_accept_connection ==
    /\ IsWebSocket
    /\ Len(sent) < MaxSent
    /\ \E a \in AcceptArgs :
          LET subprotocol == a.subprotocol
              headers == a.headers
              r == accept_connection(conn.protocol, sent, subprotocol, headers)
          IN
          /\ sent' = r.sent
          /\ connection_state' = r.connection_state
          /\ last' = Outcome("accept_connection",
                             [subprotocol |-> subprotocol, headers |-> headers],
                             r.exc, None)
    /\ UNCHANGED <<conn, connection_status, nreceive>>
    /\ UNCHANGED handling

Call_close_connection ==
    /\ IsWebSocket
    /\ Len(sent) < MaxSent
    /\ \E code \in CloseCodes :
          LET r == close_connection(conn.protocol, sent, code) IN
          /\ sent' = r.sent
          /\ connection_state' = r.connection_state
          /\ last' = Outcome("close_connection", [code |-> code], r.exc, None)
    /\ UNCHANGED <<conn, connection_status, nreceive>>
    /\ UNCHANGED handling

Call_send_bytes ==
    /\ IsWebSocket
    /\ Len(sent) < MaxSent
    /\ \E data \in {<<104, 105>>} :
          LET r == send_bytes(conn.protocol, sent, data) IN
          /\ sent' = r.sent
          /\ last' = Outcome("send_bytes", [data |-> data], r.exc, None)
    /\ UNCHANGED <<conn, connection_status, connection_state, nreceive>>
    /\ UNCHANGED handling

Call_send_text ==
    /\ IsWebSocket
    /\ Len(sent) < MaxSent
    /\ \E data \in Texts :
          LET r == send_text(conn.protocol, sent, data) IN
          /\ sent' = r.sent
          /\ last' = Outcome("send_text", [data |-> data], r.exc, None)
    /\ UNCHANGED <<conn, connection_status, connection_state, nreceive>>
    /\ UNCHANGED handling

Call_WebSocket_receive_request ==
    /\ IsWebSocket
    /\ nreceive < MaxReceive
    /\ \E request \in WsInbound :
          LET r == WebSocket_receive_request(connection_state, request) IN
          /\ connection_state' = r.connection_state
          /\ nreceive' = IF r.pulled THEN nreceive + 1 ELSE nreceive
          /\ last' = Outcome("receive_request",
                             [request |-> IF r.pulled THEN Some(request) ELSE None],
                             r.exc, r.ret)
    /\ UNCHANGED <<conn, connection_status, sent>>
    /\ UNCHANGED handling

Call_WebSocket_send_response ==
    /\ IsWebSocket
    /\ Len(sent) < MaxSent
    /\ \E response \in WebSocketResponses :
          LET r == WebSocket_send_response(conn.protocol, connection_state, sent, response) IN
          /\ sent' = r.sent
          /\ connection_state' = r.connection_state
          /\ last' = Outcome("send_response", [response |-> response], r.exc, None)
    /\ UNCHANGED <<conn, connection_status, nreceive>>
    /\ UNCHANGED handling

(* connection.send(message) called directly.                               *)
Call_Connection_send ==
    /\ conn # NoConn
    /\ Len(sent) < MaxSent
    /\ \E message \in SendMessages :
          LET r == Connection_send(conn.protocol, sent, message) IN
          /\ sent' = r.sent
          /\ last' = Outcome("send", [message |-> message], r.exc, None)
    /\ UNCHANGED <<conn, connection_status, connection_state, nreceive>>
    /\ UNCHANGED handling

Next ==
    \/ Call_make_connection
    \/ Call_send_start
    \/ Call_send_body
    \/ Call_Http_send_response
    \/ Call_accept_connection
    \/ Call_close_connection
    \/ Call_send_bytes
    \/ Call_send_text
    \/ Call_WebSocket_receive_request
    \/ Call_WebSocket_send_response
    \/ Call_Connection_send

Spec == Init /\ [][Next]_vars

(* The sending operations of one HttpConnection, in any order.             *)
NextHttpSend ==
    \/ Call_make_connection
    \/ Call_send_start
    \/ Call_send_body
    \/ Call_Http_send_response

SpecHttpSend == Init /\ [][NextHttpSend]_vars

---------------------------------------------------------------------------
(* The receiving side: connections built by the factory or constructed     *)
(* directly, and every operation that pulls from the transport.            *)

ConnectionClasses == {"HttpConnection", "WebSocketConnection"}

(* HttpConnection(scope, receive, send) or WebSocketConnection(...) called *)
(* directly, with any scope.                                               *)
Call_Connection_init ==
    /\ conn = NoConn
    /\ \E cls \in ConnectionClasses, scope \in Scopes,
          receive \in Receives, send \in Sends :
          /\ conn' = Connection_init(cls, ClassProtocol(cls), scope, receive, send)
          /\ connection_status' = IF cls = "HttpConnection" THEN "open" ELSE "absent"
          /\ connection_state' =
                IF cls = "WebSocketConnection" THEN "connecting" ELSE "absent"
          /\ last' = Outcome("init",
                             [cls |-> cls, scope |-> scope,
                              receive |-> receive, send |-> send],
                             "none", None)
    /\ UNCHANGED <<sent, nreceive>>
    /\ UNCHANGED handling

(* Sequences of at least one and at most n elements of S.                  *)
SeqUpTo(S, n) == UNION { [1..k -> S] : k \in 1..n }

(* What the transport holds for an http connection: one message more than  *)
(* may be pulled, so that a message can be seen to be left alone.          *)
HttpInboxes == SeqUpTo(HttpInbound, MaxReceive - nreceive + 1)

Call_Http_receive_request ==
    /\ IsHttp
    /\ nreceive < MaxReceive
    /\ \E request \in HttpInbound :
          LET r == Http_receive_request(conn.protocol, request) IN
          /\ nreceive' = nreceive + 1
          /\ last' = [detail |-> r.detail] @@
                      Outcome("http_receive_request", [request |-> Some(request)],
                              r.exc, r.ret)
    /\ UNCHANGED <<conn, connection_status, connection_state, sent>>
    /\ UNCHANGED handling

(* async for request in connection.stream_requests(), run to its end.      *)
Call_stream_requests ==
    /\ IsHttp
    /\ \E inbox \in HttpInboxes :
          LET r == stream_requests(conn.protocol, inbox) IN
          /\ r.exc # "blocked"
          /\ nreceive + r.pulled <= MaxReceive
          /\ nreceive' = nreceive + r.pulled
          /\ last' = Outcome("stream_requests", [inbox |-> inbox], r.exc,
                             [yielded |-> r.yielded, pulled |-> r.pulled])
    /\ UNCHANGED <<conn, connection_status, connection_state, sent>>
    /\ UNCHANGED handling

Call_get_requests_body ==
    /\ IsHttp
    /\ \E inbox \in HttpInboxes :
          LET r == get_requests_body(conn.protocol, inbox) IN
          /\ r.exc # "blocked"
          /\ nreceive + r.pulled <= MaxReceive
          /\ nreceive' = nreceive + r.pulled
          /\ last' = Outcome("get_requests_body", [inbox |-> inbox], r.exc,
                             [request |-> r.ret, pulled |-> r.pulled])
    /\ UNCHANGED <<conn, connection_status, connection_state, sent>>
    /\ UNCHANGED handling

NextReceive ==
    \/ Call_make_connection
    \/ Call_Connection_init
    \/ Call_Http_receive_request
    \/ Call_stream_requests
    \/ Call_get_requests_body
    \/ Call_WebSocket_receive_request

SpecReceive == Init /\ [][NextReceive]_vars

---------------------------------------------------------------------------
(* Rendering on its own: a response is constructed and rendered.           *)

Chunks == {<<72>>, <<87, 33>>}
RenderChunkLists == {<<>>} \cup SeqUpTo(Chunks, MaxChunks)
RenderStreamResponses ==
    { [kind |-> "StreamResponse", status |-> a.status, headers |-> a.headers, body |-> c] :
        a \in StartArgs, c \in RenderChunkLists }
RenderAcceptResponses ==
    { [kind |-> "AcceptResponse", subprotocol |-> a.subprotocol, headers |-> a.headers] :
        a \in AcceptArgs }
RenderMessageResponses ==
    [kind : {"MessageResponse"}, bytes : {None, Some(<<104>>)}, text : {None, Some("hi")}]

HttpKinds == {"BodyResponse", "StreamResponse"} \cup TextKinds
WebSocketKinds == {"AcceptResponse", "MessageResponse", "CloseResponse"}

(* What response.render_messages(), consumed to its end, is recorded as.   *)
Rendered(response) ==
    Outcome("render_messages", [response |-> response], "none",
            [messages |-> render_messages(response),
             taken |-> IF response.kind = "StreamResponse"
                       THEN StreamTaken(response.body) ELSE 0])

Call_Http_render_messages ==
    /\ \/ \E response \in BodyResponses : last' = Rendered(response)
       \/ \E response \in RenderStreamResponses : last' = Rendered(response)
       \/ \E response \in TextResponses : last' = Rendered(response)
    /\ UNCHANGED <<conn, connection_status, connection_state, sent, nreceive>>
    /\ UNCHANGED handling

Call_WebSocket_render_messages ==
    /\ \/ \E response \in RenderAcceptResponses : last' = Rendered(response)
       \/ \E response \in RenderMessageResponses : last' = Rendered(response)
       \/ \E response \in CloseResponses : last' = Rendered(response)
    /\ UNCHANGED <<conn, connection_status, connection_state, sent, nreceive>>
    /\ UNCHANGED handling

(* CloseResponse(code).render_messages(), the code given or left out.      *)
Call_CloseResponse_render_messages ==
    \E code \in {None} \cup {Some(c) : c \in CloseCodes} :
        LET response == CloseResponse(code) IN
        /\ last' = Outcome("render_messages", [response |-> response, code |-> code],
                           "none",
                           [messages |-> render_messages(response), taken |-> 0])
        /\ UNCHANGED <<conn, connection_status, connection_state, sent, nreceive>>
        /\ UNCHANGED handling

(* response.render_headers() of a text response that has not been         *)
(* rendered yet.                                                           *)
Call_render_headers ==
    \E response \in TextResponses :
        /\ last' = Outcome("render_headers", [response |-> response, previous |-> None],
                           "none",
                           [response |-> response,
                            rendered |-> Text_render_headers(response)])
        /\ UNCHANGED <<conn, connection_status, connection_state, sent, nreceive>>
        /\ UNCHANGED handling

(* response.render_headers() once more, on the response just rendered.     *)
Call_render_headers_again ==
    /\ last.op = "render_headers"
    /\ last.args.previous = None
    /\ LET response == last.ret.response IN
       last' = Outcome("render_headers",
                       [response |-> response, previous |-> Some(last.ret.rendered)],
                       "none",
                       [response |-> response,
                        rendered |-> Text_render_headers(response)])
    /\ UNCHANGED <<conn, connection_status, connection_state, sent, nreceive>>
    /\ UNCHANGED handling

(* Response.render_response(): status, rendered headers, rendered body.    *)
render_response(response) ==
    [status |-> response.status,
     headers |-> Text_render_headers(response),
     body |-> Text_render_body(response),
     more_body |-> FALSE]

Call_render_response ==
    \E response \in TextResponses :
        /\ last' = Outcome("render_response", [response |-> response], "none",
                           render_response(response))
        /\ UNCHANGED <<conn, connection_status, connection_state, sent, nreceive>>
        /\ UNCHANGED handling

NextRender ==
    \/ Call_render_response
    \/ Call_Http_render_messages
    \/ Call_WebSocket_render_messages
    \/ Call_CloseResponse_render_messages
    \/ Call_render_headers
    \/ Call_render_headers_again

SpecRender == Init /\ [][NextRender]_vars

---------------------------------------------------------------------------
(* Routes and the application. One call of the application is one step:    *)
(* k is the state of the connection the call works on,                     *)
(* [connection_status, connection_state, sent, nreceive], threaded through *)
(* the operations in the order the code performs them.                     *)

(* The state of a connection as its constructor leaves it.                 *)
NewK(cls) ==
    [connection_status |-> IF cls = "HttpConnection" THEN "open" ELSE "absent",
     connection_state |-> IF cls = "WebSocketConnection" THEN "connecting" ELSE "absent",
     sent |-> <<>>, nreceive |-> 0]

(* connection.send_response(response), on either connection class: r is    *)
(* the outcome of the class's send_response.                               *)
HttpSent(k, r) ==
    [exc |-> r.exc,
     k |-> [k EXCEPT !.sent = r.sent, !.connection_status = r.connection_status]]
WebSocketSent(k, r) ==
    [exc |-> r.exc,
     k |-> [k EXCEPT !.sent = r.sent, !.connection_state = r.connection_state]]
Connection_send_response(c, k, response) ==
    IF c.cls = "HttpConnection"
    THEN HttpSent(k, Http_send_response(c.protocol, k.connection_status, k.sent, response))
    ELSE WebSocketSent(k, WebSocket_send_response(c.protocol, k.connection_state,
                                                  k.sent, response))

(* connection.receive_request(), `message` being what the transport        *)
(* delivers and r the outcome of the class's receive_request.              *)
HttpReceived(k, r) ==
    [exc |-> r.exc, ret |-> r.ret, k |-> [k EXCEPT !.nreceive = @ + 1]]
WebSocketReceived(k, r) ==
    [exc |-> r.exc, ret |-> r.ret,
     k |-> [k EXCEPT !.nreceive = IF r.pulled THEN @ + 1 ELSE @,
                     !.connection_state = r.connection_state]]
Connection_receive_request(c, k, message) ==
    IF c.cls = "HttpConnection"
    THEN HttpReceived(k, Http_receive_request(c.protocol, message))
    ELSE WebSocketReceived(k, WebSocket_receive_request(k.connection_state, message))

(* The protocol attribute of each route class.                             *)
RouteProtocol(cls) == IF cls = "HttpRoute" THEN "http" ELSE "websocket"

(* The endpoint methods of each route class, and its other attributes.     *)
Endpoints(cls) ==
    IF cls = "HttpRoute"
    THEN {"get", "head", "post", "put", "delete", "connect", "options", "trace", "patch"}
    ELSE {"connect", "receive", "disconnect"}
OtherAttributes(cls) ==
    IF cls = "HttpRoute"
    THEN {"path", "protocol", "get_endpoint", "send_internal_server_error",
          "send_not_implemented", "send_method_not_allowed"}
    ELSE {"path", "protocol", "get_endpoint", "send_internal_error"}

(* Route.get_endpoint: getattr(self, endpoint).                            *)
get_endpoint(route, endpoint) ==
    IF endpoint \in Endpoints(route.cls) \cup OtherAttributes(route.cls)
    THEN [exc |-> "none", ret |-> Some(endpoint)]
    ELSE [exc |-> "AttributeError", ret |-> None]

(* str.lower() of the method names of the model.                           *)
MethodLower ==
    [GET |-> "get", HEAD |-> "head", POST |-> "post", PUT |-> "put",
     DELETE |-> "delete", CONNECT |-> "connect", OPTIONS |-> "options",
     TRACE |-> "trace", PATCH |-> "patch", BREW |-> "brew", PATH |-> "path"]
Methods == DOMAIN MethodLower

(* What an endpoint does: "default" is the method of the route class, the  *)
(* others are endpoints overridden by the application.                     *)
Behaviours == {"default", "raises", "responds_raises"}

(* The responses the route classes and the application construct.          *)
(* Mutant: the response of the default endpoints with status 404.          *)
MethodNotAllowed_as_not_found ==
    [kind |-> "BodyResponse", status |-> 404, headers |-> <<>>,
     body |-> <<77, 101, 116, 104, 111, 100, 32, 78, 111, 116, 32, 65, 108, 108, 111, 119, 101, 100>>]

MethodNotAllowed ==
    [kind |-> "BodyResponse", status |-> 405, headers |-> <<>>,
     body |-> <<77, 101, 116, 104, 111, 100, 32, 78, 111, 116, 32, 65, 108, 108, 111, 119, 101, 100>>]
NotImplemented ==
    [kind |-> "BodyResponse", status |-> 501, headers |-> <<>>,
     body |-> <<78, 111, 116, 32, 73, 109, 112, 108, 101, 109, 101, 110, 116, 101, 100>>]
InternalServerError ==
    [kind |-> "BodyResponse", status |-> 500, headers |-> <<>>,
     body |-> <<73, 110, 116, 101, 114, 110, 97, 108, 32, 83, 101, 114, 118, 101, 114, 32, 69, 114, 114, 111, 114>>]
InternalError == [kind |-> "CloseResponse", code |-> 1011]
NotFound ==
    [kind |-> "PlainTextResponse", status |-> 404, headers |-> <<>>,
     body |-> Bytes(<<78, 111, 116, 32, 70, 111, 117, 110, 100>>),
     charset |-> "utf-8"]

(* The response an overridden endpoint of the model sends.                 *)
EndpointResponse(cls) ==
    IF cls = "HttpRoute"
    THEN [kind |-> "BodyResponse", status |-> 200, headers |-> <<>>, body |-> <<104, 105>>]
    ELSE [kind |-> "MessageResponse", bytes |-> None, text |-> Some("hi")]

(* `raise exc` after a step with outcome s: a failure of the step itself   *)
(* comes first.                                                            *)
ThenRaise(s, exc) ==
    [exc |-> IF s.exc # "none" THEN s.exc ELSE exc, k |-> s.k]

(* Mutant: the endpoints with a default connect that does nothing.         *)
Endpoint_call_connect_passes(route, endpoint, c, k, request) ==
    IF endpoint \notin Endpoints(route.cls)
    THEN [exc |-> "TypeError", k |-> k]
    ELSE IF route.behaviour = "raises"
    THEN [exc |-> "EndpointError", k |-> k]
    ELSE IF route.behaviour = "responds_raises"
    THEN ThenRaise(Connection_send_response(c, k, EndpointResponse(route.cls)),
                   "EndpointError")
    ELSE IF route.cls = "HttpRoute"
    THEN Connection_send_response(c, k, MethodNotAllowed)
    ELSE [exc |-> "none", k |-> k]

(* await endpoint(connection, request): an attribute that is not an        *)
(* endpoint cannot be called with these arguments.                         *)
Endpoint_call(route, endpoint, c, k, request) ==
    IF endpoint \notin Endpoints(route.cls)
    THEN [exc |-> "TypeError", k |-> k]
    ELSE IF route.behaviour = "raises"
    THEN [exc |-> "EndpointError", k |-> k]
    ELSE IF route.behaviour = "responds_raises"
    THEN ThenRaise(Connection_send_response(c, k, EndpointResponse(route.cls)),
                   "EndpointError")
    ELSE IF route.cls = "HttpRoute"
    THEN \* HttpRoute.get ... patch: send_method_not_allowed
         Connection_send_response(c, k, MethodNotAllowed)
    ELSE IF endpoint = "connect"
    THEN \* WebSocketRoute.connect: AcceptResponse()
         Connection_send_response(c, k,
             [kind |-> "AcceptResponse", subprotocol |-> None, headers |-> <<>>])
    ELSE \* WebSocketRoute.receive, WebSocketRoute.disconnect: pass
         [exc |-> "none", k |-> k]

(* An except clause that sends an error response and re-raises: a failure  *)
(* of the sending replaces the failure being handled. endpoint is the      *)
(* endpoint that had been invoked, if any.                                 *)
SendThenRaise(c, k, response, exc, endpoint) ==
    [endpoint |-> endpoint] @@ ThenRaise(Connection_send_response(c, k, response), exc)

(* Mutant: a route that sends the error response and returns normally.     *)
Route_ended_swallowing(c, error_response, endpoint, x) ==
    IF x.exc # "none"
    THEN SendThenRaise(c, x.k, error_response, "none", endpoint)
    ELSE [exc |-> "none", k |-> x.k, endpoint |-> endpoint]

(* The end of a route's call, x being the outcome of the endpoint.         *)
Route_ended(c, error_response, endpoint, x) ==
    IF x.exc # "none"
    THEN SendThenRaise(c, x.k, error_response, x.exc, endpoint)
    ELSE [exc |-> "none", k |-> x.k, endpoint |-> endpoint]

(* HttpRoute.__call__ from the receiving of the request on, r being the    *)
(* outcome of receive_request.                                             *)
HttpRoute_received(route, c, endpoint, r) ==
    IF r.exc # "none"
    THEN SendThenRaise(c, r.k, InternalServerError, r.exc, None)
    ELSE Route_ended(c, InternalServerError, endpoint,
                     Endpoint_call(route, endpoint[1], c, r.k, r.ret[1]))

(* Mutant: HttpRoute.__call__ that answers a failed lookup like a failed   *)
(* endpoint.                                                               *)
HttpRoute_resolved_as_error(route, c, k, message, e) ==
    IF e.exc = "AttributeError"
    THEN SendThenRaise(c, k, InternalServerError, e.exc, None)
    ELSE HttpRoute_received(route, c, e.ret, Connection_receive_request(c, k, message))

(* HttpRoute.__call__ from the lookup of the endpoint on, e being the      *)
(* outcome of get_endpoint.                                                *)
HttpRoute_resolved(route, c, k, message, e) ==
    IF e.exc = "AttributeError"
    THEN SendThenRaise(c, k, NotImplemented, e.exc, None)
    ELSE HttpRoute_received(route, c, e.ret, Connection_receive_request(c, k, message))

(* HttpRoute.__call__.                                                     *)
HttpRoute_call(route, c, k, message) ==
    IF c.protocol # RouteProtocol(route.cls)
    THEN [exc |-> "ProtocolMismatch", k |-> k, endpoint |-> None]
    ELSE HttpRoute_resolved(route, c, k, message,
                            get_endpoint(route, MethodLower[c.scope.method]))

(* WebSocketRoute.__call__ from the lookup of the endpoint on, r being the *)
(* outcome of receive_request and e that of get_endpoint.                  *)
WebSocketRoute_resolved(route, c, r, e) ==
    IF e.exc # "none"
    THEN SendThenRaise(c, r.k, InternalError, e.exc, None)
    ELSE Route_ended(c, InternalError, e.ret,
                     Endpoint_call(route, e.ret[1], c, r.k, r.ret[1]))

(* Mutant: WebSocketRoute.__call__ that re-raises a failed receive without *)
(* closing.                                                                *)
WebSocketRoute_received_silent(route, c, r) ==
    IF r.exc # "none"
    THEN [exc |-> r.exc, k |-> r.k, endpoint |-> None]
    ELSE WebSocketRoute_resolved(route, c, r, get_endpoint(route, r.ret[1].type))

(* WebSocketRoute.__call__ from the receiving of the request on.           *)
WebSocketRoute_received(route, c, r) ==
    IF r.exc # "none"
    THEN SendThenRaise(c, r.k, InternalError, r.exc, None)
    ELSE WebSocketRoute_resolved(route, c, r, get_endpoint(route, r.ret[1].type))

(* WebSocketRoute.__call__.                                                *)
WebSocketRoute_call(route, c, k, message) ==
    IF c.protocol # RouteProtocol(route.cls)
    THEN [exc |-> "ProtocolMismatch", k |-> k, endpoint |-> None]
    ELSE WebSocketRoute_received(route, c, Connection_receive_request(c, k, message))

(* Mutant: Route.__call__ without the comparison of the protocols.         *)
BaseRoute_call_unchecked(route, c, k) ==
    IF route.protocol = None
    THEN [exc |-> "AttributeError", k |-> k, endpoint |-> None]
    ELSE [exc |-> "none", k |-> k, endpoint |-> None]

(* Route.__call__ of the base class. protocol is only annotated in the     *)
(* class: route.protocol is what a subclass or the caller has assigned, if *)
(* anything.                                                               *)
BaseRoute_call(route, c, k) ==
    IF route.protocol = None
    THEN [exc |-> "AttributeError", k |-> k, endpoint |-> None]
    ELSE IF c.protocol # route.protocol[1]
    THEN [exc |-> "ProtocolMismatch", k |-> k, endpoint |-> None]
    ELSE [exc |-> "none", k |-> k, endpoint |-> None]

(* await route(connection).                                                *)
Route_call(route, c, k, message) ==
    IF route.cls = "HttpRoute" THEN HttpRoute_call(route, c, k, message)
    ELSE IF route.cls = "WebSocketRoute" THEN WebSocketRoute_call(route, c, k, message)
    ELSE BaseRoute_call(route, c, k)

(* route.path_regex.match(path): the compiled pattern of the route's path  *)
(* is outside connections.py, routing.py and applications.py; a pattern    *)
(* matches the whole path and extracts its named parameters.               *)
PathMatch(pattern, path) ==
    IF pattern = path THEN Some(<<>>)
    ELSE IF pattern = "/post/{id}" /\ path = "/post/1" THEN Some([id |-> "1"])
    ELSE IF pattern = "/post/{id}" /\ path = "/post/2" THEN Some([id |-> "2"])
    ELSE None

RoutePaths == {"/", "/post/{id}"}
ScopePaths == {"/", "/post/1", "/unknown"}
Routes == [cls : {"HttpRoute", "WebSocketRoute"}, path : RoutePaths, behaviour : Behaviours]
RouteLists == {<<>>} \cup SeqUpTo(Routes, MaxRoutes)

(* The scopes handed to the application.                                   *)
AppScopes ==
    [type : {"http"}, path : ScopePaths, method : Methods]
    \cup [type : {"websocket", "unknown"}, path : ScopePaths]

(* What the transport delivers to the first receive of a call.             *)
AppInbound(scope) ==
    IF scope.type = "http" THEN HttpInbound
    ELSE WsInbound \cup { [type |-> <<"websocket", "ping">>],
                          [type |-> <<"websocket", "path">>] }

(* Mutant: the last route whose pattern matches the path, or 0.            *)
FirstMatch_last(routes, path) ==
    IF \A i \in 1..Len(routes) : PathMatch(routes[i].path, path) = None THEN 0
    ELSE CHOOSE i \in 1..Len(routes) :
            /\ PathMatch(routes[i].path, path) # None
            /\ \A j \in (i + 1)..Len(routes) : PathMatch(routes[j].path, path) = None

(* The first route whose pattern matches the path, or 0.                   *)
FirstMatch(routes, path) ==
    IF \A i \in 1..Len(routes) : PathMatch(routes[i].path, path) = None THEN 0
    ELSE CHOOSE i \in 1..Len(routes) :
            /\ PathMatch(routes[i].path, path) # None
            /\ \A j \in 1..(i - 1) : PathMatch(routes[j].path, path) = None

(* Mutant: Xiao.__call__ that logs the failure of the route and re-raises  *)
(* it.                                                                     *)
Xiao_routed_reraising(connection, i, r) ==
    [exc |-> r.exc, connection |-> connection, k |-> r.k,
     logged |-> IF r.exc # "none" THEN 1 ELSE 0,
     invoked |-> Some(i), endpoint |-> r.endpoint, route_exc |-> r.exc]

(* Xiao.__call__ once the route has been called with outcome r: the        *)
(* exception is logged and the call returns. logged counts the calls of    *)
(* logger.exception, invoked is the index of the route that was called.    *)
Xiao_routed(connection, i, r) ==
    [exc |-> "none", connection |-> connection, k |-> r.k,
     logged |-> IF r.exc # "none" THEN 1 ELSE 0,
     invoked |-> Some(i), endpoint |-> r.endpoint, route_exc |-> r.exc]

(* Xiao.__call__ when no route matches, s being the outcome of the sending *)
(* of the 404 response.                                                    *)
Xiao_unrouted(connection, s) ==
    [exc |-> s.exc, connection |-> connection, k |-> s.k,
     logged |-> 0, invoked |-> None, endpoint |-> None, route_exc |-> "none"]

(* connection.path_parameters = match.groupdict().                         *)
WithParameters(connection, match) ==
    [path_parameters |-> match[1]] @@ connection

(* Xiao.__call__ from the loop over the routes on.                         *)
Xiao_connected(routes, scope, message, connection, i) ==
    IF i = 0
    THEN Xiao_unrouted(connection,
             Connection_send_response(connection, NewK(connection.cls), NotFound))
    ELSE Xiao_routed(WithParameters(connection, PathMatch(routes[i].path, scope.path)), i,
             Route_call(routes[i],
                        WithParameters(connection, PathMatch(routes[i].path, scope.path)),
                        NewK(connection.cls), message))

(* Xiao.__call__, m being the outcome of make_connection.                  *)
Xiao_made(routes, scope, message, m) ==
    IF m.exc # "none"
    THEN [exc |-> m.exc, connection |-> NoConn, k |-> NewK("none"),
          logged |-> 0, invoked |-> None, endpoint |-> None, route_exc |-> "none"]
    ELSE Xiao_connected(routes, scope, message, m.ret, FirstMatch(routes, scope.path))

(* Xiao.__call__.                                                          *)
Xiao_call(routes, scope, receive, send, message) ==
    Xiao_made(routes, scope, message, make_connection(scope, receive, send))

(* await app(scope, receive, send): the first thing that happens, each     *)
(* call building its own connection.                                       *)
Call_Xiao ==
    /\ last.op = "none"
    /\ \E routes \in RouteLists, scope \in AppScopes,
          receive \in Receives, send \in Sends :
          \E message \in AppInbound(scope) :
             \E r \in {Xiao_call(routes, scope, receive, send, message)} :
                /\ conn' = r.connection
                /\ connection_status' = r.k.connection_status
                /\ connection_state' = r.k.connection_state
                /\ sent' = r.k.sent
                /\ nreceive' = r.k.nreceive
                /\ last' = Outcome("Xiao",
                                   [routes |-> routes, scope |-> scope,
                                    receive |-> receive, send |-> send,
                                    message |-> message],
                                   r.exc,
                                   [logged |-> r.logged, invoked |-> r.invoked,
                                    endpoint |-> r.endpoint,
                                    route_exc |-> r.route_exc])
    /\ UNCHANGED handling

NextApp ==
    \/ Call_make_connection
    \/ Call_Xiao

SpecApp == Init /\ [][NextApp]_vars

---------------------------------------------------------------------------
(* A route called by itself, with a connection as make_connection builds   *)
(* it.                                                                     *)

(* Instances of the base class, with the protocol attribute assigned or    *)
(* not.                                                                    *)
BaseRoutes ==
    [cls : {"Route"}, path : RoutePaths,
     protocol : {None, Some("http"), Some("websocket")}]
RouteScopes == {scope \in AppScopes : scope.type \in DOMAIN protocols}

(* What a call of a route is recorded as.                                  *)
Routed(route, scope, message, r) ==
    Outcome("Route", [route |-> route, scope |-> scope, message |-> message],
            r.exc, [endpoint |-> r.endpoint])

(* await route(connection).                                                *)
Call_Route ==
    /\ last.op = "none"
    /\ \E scope \in RouteScopes, receive \in Receives, send \in Sends :
          \E message \in AppInbound(scope), route \in Routes \cup BaseRoutes :
             \E m \in {make_connection(scope, receive, send)} :
                \E r \in {Route_call(route, m.ret, NewK(m.ret.cls), message)} :
                   /\ conn' = m.ret
                   /\ connection_status' = r.k.connection_status
                   /\ connection_state' = r.k.connection_state
                   /\ sent' = r.k.sent
                   /\ nreceive' = r.k.nreceive
                   /\ last' = Routed(route, scope, message, r)
    /\ UNCHANGED handling

NextRoute ==
    \/ Call_Route

SpecRoute == Init /\ [][NextRoute]_vars

(* Every path to the transport: the operations of a connection made by     *)
(* make_connection, the call of a route and the call of the application,   *)
(* whose connection is gone when the call has returned.                    *)
NextPaths ==
    \/ last.op \notin {"Xiao", "Route"} /\ Next
    \/ Call_Xiao
    \/ Call_Route
SpecPaths == Init /\ [][NextPaths]_vars

---------------------------------------------------------------------------
(* Calls of one application in flight together. A call runs from one await *)
(* of its transport to the next in one step; between two of its steps the  *)
(* steps of the other call may run.                                        *)

(* The route lists of the shared application, the scopes of the calls and  *)
(* what a call's transport delivers to its first receive.                  *)
SharedRouteLists ==
    {<<>>} \cup { <<route>> : route \in {r \in Routes : r.path = "/post/{id}"} }
ConcurrentScopes ==
    [type : {"http"}, path : {"/post/1", "/post/2"}, method : {"GET", "BREW"}]
    \cup [type : {"websocket"}, path : {"/post/1", "/post/2"}]
ConcurrentInbound(scope) ==
    IF scope.type = "http"
    THEN { [type |-> <<"http", "request">>, body |-> <<33>>, more_body |-> FALSE],
           [type |-> <<"http", "disconnect">>] }
    ELSE { [type |-> <<"websocket", "connect">>],
           [type |-> <<"websocket", "disconnect">>, code |-> 1001] }

(* Mutant: the connection kept where every call finds it, so that a call   *)
(* works on the connection made last.                                      *)
CallConnection_shared(heap, locals, t) == Len(heap)

(* The local variable `connection` of Xiao.__call__ in call t: the object  *)
(* this call has made.                                                     *)
CallConnection(heap, locals, t) == locals[t].connection

(* The fields of a connection object and what its transport has seen, as   *)
(* the operations of the connection take them.                             *)
ObjectK(o, wires) ==
    [connection_status |-> o.connection_status,
     connection_state |-> o.connection_state,
     sent |-> wires[o.c.send].sent,
     nreceive |-> wires[o.c.receive].nreceive]

(* The object as its constructor left it.                                  *)
NewObject(c) ==
    [c |-> c, connection_status |-> NewK(c.cls).connection_status,
     connection_state |-> NewK(c.cls).connection_state]

(* What a call does from the loop over the routes on, with the connection  *)
(* c it works on, the routes of the application and its own locals.        *)
CallRun(routes, local, c) ==
    Xiao_connected(routes, local.scope, local.message, c, local.route)

(* The awaits of the transport in a run: the receive, if any, comes before *)
(* the first send.                                                         *)
Awaits(r) ==
    (IF r.k.nreceive > 0 THEN <<[await |-> "receive"]>> ELSE <<>>)
    \o [j \in 1..Len(r.k.sent) |-> [await |-> "send", message |-> r.k.sent[j]]]

(* The lifecycle fields of a connection once one of its messages has been  *)
(* delivered: an accept and a close are recorded, HttpConnection's         *)
(* send_response writes nothing.                                           *)
Delivered(o, message) ==
    IF o.c.cls # "WebSocketConnection" THEN o
    ELSE IF message.type = <<"websocket", "accept">>
    THEN [o EXCEPT !.connection_state = "accepted"]
    ELSE IF message.type = <<"websocket", "close">>
    THEN [o EXCEPT !.connection_state = "closed"]
    ELSE o

(* Xiao(routes).                                                           *)
Call_Xiao_init ==
    /\ application = None
    /\ \E routes \in SharedRouteLists : application' = Some([routes |-> routes])
    /\ UNCHANGED <<conn, connection_status, connection_state, sent, nreceive, last>>
    /\ UNCHANGED <<connections, transports, calls>>

(* app(scope, receive, send) up to its first await: the connection is made *)
(* and the route is matched.                                               *)
Call_Xiao_enter ==
    /\ application # None
    /\ \E t \in CallIds, scope \in ConcurrentScopes :
          \E message \in ConcurrentInbound(scope) :
             \E m \in {make_connection(scope, t, t)},
                i \in {FirstMatch(application[1].routes, scope.path)} :
                /\ calls[t].pc = "idle"
                /\ connections' = Append(connections,
                       NewObject(IF i = 0 THEN m.ret
                                 ELSE WithParameters(m.ret,
                                          PathMatch(application[1].routes[i].path,
                                                    scope.path))))
                /\ calls' = [calls EXCEPT ![t] =
                       [pc |-> "running", scope |-> scope, message |-> message,
                        route |-> i, connection |-> Len(connections) + 1,
                        step |-> 0]]
    /\ UNCHANGED <<conn, connection_status, connection_state, sent, nreceive, last>>
    /\ UNCHANGED <<application, transports>>

(* The next await of a call is its receive: connection.receive_request().  *)
Call_Xiao_receive ==
    /\ \E t \in CallIds :
          /\ calls[t].pc = "running"
          /\ \E id \in {CallConnection(connections, calls, t)} :
                \E a \in {Awaits(CallRun(application[1].routes, calls[t],
                                          connections[id].c))} :
                   /\ calls[t].step < Len(a)
                   /\ a[calls[t].step + 1].await = "receive"
                   /\ \E r \in {Connection_receive_request(connections[id].c,
                                     ObjectK(connections[id], transports),
                                     calls[t].message)} :
                         /\ transports' =
                               [transports EXCEPT
                                   ![connections[id].c.receive].nreceive = r.k.nreceive]
                         /\ connections' =
                               [connections EXCEPT
                                   ![id].connection_status = r.k.connection_status,
                                   ![id].connection_state = r.k.connection_state]
                   /\ calls' = [calls EXCEPT ![t].step = @ + 1]
    /\ UNCHANGED <<conn, connection_status, connection_state, sent, nreceive, last>>
    /\ UNCHANGED application

(* The next await of a call is a send: the message goes to the transport   *)
(* of the connection the call works on.                                    *)
Call_Xiao_send ==
    /\ \E t \in CallIds :
          /\ calls[t].pc = "running"
          /\ \E id \in {CallConnection(connections, calls, t)} :
                \E a \in {Awaits(CallRun(application[1].routes, calls[t],
                                          connections[id].c))} :
                   /\ calls[t].step < Len(a)
                   /\ a[calls[t].step + 1].await = "send"
                   /\ transports' =
                         [transports EXCEPT
                             ![connections[id].c.send].sent =
                                 Append(@, a[calls[t].step + 1].message)]
                   /\ connections' =
                         [connections EXCEPT
                             ![id] = Delivered(@, a[calls[t].step + 1].message)]
                   /\ calls' = [calls EXCEPT ![t].step = @ + 1]
    /\ UNCHANGED <<conn, connection_status, connection_state, sent, nreceive, last>>
    /\ UNCHANGED application

(* The call has no await left and returns.                                 *)
Call_Xiao_return ==
    /\ \E t \in CallIds :
          /\ calls[t].pc = "running"
          /\ \E id \in {CallConnection(connections, calls, t)} :
                \E a \in {Awaits(CallRun(application[1].routes, calls[t],
                                          connections[id].c))} :
                   /\ calls[t].step >= Len(a)
                   /\ calls' = [calls EXCEPT ![t].pc = "done"]
    /\ UNCHANGED <<conn, connection_status, connection_state, sent, nreceive, last>>
    /\ UNCHANGED <<application, connections, transports>>

NextConcurrent ==
    \/ Call_Xiao_init
    \/ Call_Xiao_enter
    \/ Call_Xiao_receive
    \/ Call_Xiao_send
    \/ Call_Xiao_return

SpecConcurrent == Init /\ [][NextConcurrent]_vars

---------------------------------------------------------------------------
(* Properties of HttpConnection.                                           *)

(* Whether a log of sent messages holds an http.response.start message.    *)
HasStart(log) ==
    \E i \in 1..Len(log) : log[i].type = <<"http", "response", "start">>

\* C1: send_start is permitted only in state open: from open it delivers
\* exactly one http.response.start message {status, headers} and moves
\* connection_status to closing; in every other state it fails with
\* InvalidConnectionState, delivers nothing and leaves the state alone.
C1_SendStartOnlyWhenOpen ==
    (last.op = "send_start") =>
        IF last.pre.connection_status = "open"
        THEN /\ last.exc = "none"
             /\ sent = Append(last.pre.sent,
                              [type |-> <<"http", "response", "start">>,
                               status |-> last.args.status,
                               headers |-> last.args.headers])
             /\ connection_status = "closing"
        ELSE /\ last.exc = "InvalidConnectionState"
             /\ sent = last.pre.sent
             /\ connection_status = last.pre.connection_status

(* A second send_start, before any send_body, has just failed.             *)
C1_Witness ==
    /\ last.op = "send_start"
    /\ last.exc = "InvalidConnectionState"
    /\ last.pre.connection_status = "closing"
    /\ Len(sent) = 1
    /\ HasStart(sent)

C3_SendResponseDeliversRenderedSequence ==
    (IsHttp /\ last.op = "send_response") =>
        LET response == last.args.response IN
        /\ last.exc = "none"
        /\ sent = last.pre.sent \o render_messages(response)
        /\ (response.kind = "BodyResponse") =>
              sent = last.pre.sent \o
                     << [type |-> <<"http", "response", "start">>,
                         status |-> response.status, headers |-> response.headers],
                        [type |-> <<"http", "response", "body">>,
                         body |-> response.body, more_body |-> FALSE] >>

C3_Witness ==
    /\ IsHttp
    /\ last.op = "send_response"
    /\ last.args.response.kind = "BodyResponse"
    /\ last.args.response.status = 404
    /\ last.args.response.body = <<104, 105>>
    /\ Len(sent) = 2

(* Whether a log of sent messages holds a complete response: a start       *)
(* message and, after it, a body message with more_body false.             *)
HasCompleteResponse(log) ==
    \E i, j \in 1..Len(log) :
        /\ i < j
        /\ log[i].type = <<"http", "response", "start">>
        /\ log[j].type = <<"http", "response", "body">>
        /\ ~log[j].more_body

\* C4: HttpConnection.send_response enforces the state machine of send_start
\* and send_body: once a complete response has been sent the connection is
\* closed, and a further send_response fails with InvalidConnectionState
\* and delivers nothing, so no second start message reaches the transport.
C4_SendResponseEnforcesStateMachine ==
    (IsHttp /\ last.op = "send_response" /\ HasCompleteResponse(last.pre.sent)) =>
        /\ last.exc = "InvalidConnectionState"
        /\ sent = last.pre.sent

---------------------------------------------------------------------------
(* Properties of WebSocketConnection.                                      *)

\* C5: receive_request, called in any state other than disconnected, pulls
\* exactly one message; for a websocket message it sets connection_state to
\* connected when the type is connect, to disconnected when it is
\* disconnect, leaves it unchanged for every other type, and returns a
\* Request whose protocol is websocket, whose type is the message type
\* without the prefix and whose data is the message without its type field.
C5_ReceiveRequestTransitions ==
    (IsWebSocket /\ last.op = "receive_request"
        /\ last.pre.connection_state # "disconnected") =>
        /\ nreceive = last.pre.nreceive + 1
        /\ last.args.request # None
        /\ LET m == last.args.request[1] IN
           (Len(m.type) = 2 /\ m.type[1] = "websocket") =>
              /\ last.exc = "none"
              /\ connection_state =
                    IF m.type[2] = "connect" THEN "connected"
                    ELSE IF m.type[2] = "disconnect" THEN "disconnected"
                    ELSE last.pre.connection_state
              /\ last.ret # None
              /\ LET request == last.ret[1] IN
                 /\ request.protocol = "websocket"
                 /\ request.type = m.type[2]
                 /\ DOMAIN request.data = (DOMAIN m) \ {"type"}
                 /\ \A f \in DOMAIN request.data : request.data[f] = m[f]

(* A disconnect message has just been received on a connected connection.  *)
C5_Witness ==
    /\ IsWebSocket
    /\ last.op = "receive_request"
    /\ last.exc = "none"
    /\ last.pre.connection_state = "connected"
    /\ last.args.request = Some([type |-> <<"websocket", "disconnect">>, code |-> 1001])
    /\ connection_state = "disconnected"

\* C6: receive_request called while connection_state is disconnected fails
\* with InvalidConnectionState without awaiting the transport receive
\* primitive and leaves connection_state disconnected.
C6_ReceiveWhenDisconnectedFails ==
    (IsWebSocket /\ last.op = "receive_request"
        /\ last.pre.connection_state = "disconnected") =>
        /\ last.exc = "InvalidConnectionState"
        /\ nreceive = last.pre.nreceive
        /\ last.args.request = None
        /\ last.ret = None
        /\ connection_state = "disconnected"

C6_Witness ==
    /\ IsWebSocket
    /\ last.op = "receive_request"
    /\ last.pre.connection_state = "disconnected"
    /\ last.exc = "InvalidConnectionState"
    /\ last.pre.nreceive > 0

C8_AcceptConnection ==
    (last.op = "accept_connection") =>
        /\ last.exc = "none"
        /\ sent = Append(last.pre.sent,
                         [type |-> <<"websocket", "accept">>,
                          subprotocol |-> last.args.subprotocol,
                          headers |-> last.args.headers])
        /\ connection_state \in {"connected", "accepted"}

C8_Witness ==
    /\ last.op = "accept_connection"
    /\ last.pre.connection_state = "connecting"
    /\ last.args.subprotocol = Some("v1")
    /\ Len(sent) = 1
    /\ connection_state = "accepted"

\* C9: close_connection(code) delivers exactly one message
\* {type: websocket.close, code} to the transport and afterwards the
\* connection is in the disconnected/closed state.
C9_CloseConnection ==
    (last.op = "close_connection") =>
        /\ last.exc = "none"
        /\ sent = Append(last.pre.sent,
                         [type |-> <<"websocket", "close">>, code |-> last.args.code])
        /\ connection_state \in {"disconnected", "closed"}

C9_Witness ==
    /\ last.op = "close_connection"
    /\ last.pre.connection_state = "accepted"
    /\ last.args.code = 1000
    /\ Len(sent) = 2
    /\ connection_state = "closed"

---------------------------------------------------------------------------
(* Properties of make_connection.                                          *)

\* C10: for every scope whose type is a registered protocol (http,
\* websocket), make_connection never raises and returns a connection of the
\* class registered for that type, whose protocol equals the scope's type
\* and which holds exactly the given scope, receive and send.
C10_MakeConnectionRegistered ==
    (last.op = "make_connection" /\ last.args.scope.type \in {"http", "websocket"}) =>
        /\ last.exc = "none"
        /\ conn.cls = IF last.args.scope.type = "http"
                      THEN "HttpConnection" ELSE "WebSocketConnection"
        /\ conn.protocol = last.args.scope.type
        /\ conn.scope = last.args.scope
        /\ conn.receive = last.args.receive
        /\ conn.send = last.args.send

C10_Witness ==
    /\ last.op = "make_connection"
    /\ last.args.scope.type = "websocket"
    /\ conn.cls = "WebSocketConnection"
    /\ connection_state = "connecting"

---------------------------------------------------------------------------
(* Properties of Connection.send, of construction and of the receiving     *)
(* side.                                                                   *)

\* C13: Connection.send hands a message to the transport only when the
\* text before the first '.' of its type is the connection's protocol;
\* otherwise it fails with ProtocolMismatch and the transport's send is
\* not invoked.
C13_SendChecksProtocol ==
    (last.op = "send") =>
        IF Head(last.args.message.type) = conn.protocol
        THEN /\ last.exc = "none"
             /\ sent = Append(last.pre.sent, last.args.message)
        ELSE /\ last.exc = "ProtocolMismatch"
             /\ sent = last.pre.sent

(* A WebSocket connection has just refused to send an http message.        *)
C13_Witness ==
    /\ last.op = "send"
    /\ IsWebSocket
    /\ Head(last.args.message.type) = "http"
    /\ last.exc = "ProtocolMismatch"
    /\ sent = last.pre.sent

\* C12: constructing a connection class with a scope whose type is not the
\* class's protocol fails at once with a ValueError, so that no connection
\* object with a mismatched scope ever exists.
C12_ConstructionRejectsMismatch ==
    /\ (last.op = "init" /\ last.args.scope.type # ClassProtocol(last.args.cls))
           => (last.exc = "ValueError" /\ conn = NoConn)
    /\ (conn # NoConn) => (conn.scope.type = conn.protocol)

\* C14: every receive path pulls exactly one message and fails with
\* ProtocolMismatch when the prefix of its type is not the connection's
\* protocol: the foreign message never becomes a Request and never changes
\* the connection's state.
C14_ReceiveRejectsForeign ==
    (/\ last.op \in {"receive_request", "http_receive_request"}
     /\ last.args.request # None
     /\ Head(last.args.request[1].type) # conn.protocol)
        => /\ last.exc = "ProtocolMismatch"
           /\ last.ret = None
           /\ nreceive = last.pre.nreceive + 1
           /\ connection_state = last.pre.connection_state
           /\ connection_status = last.pre.connection_status

\* C15: HttpConnection.receive_request returns Request(http, request, data
\* without the type key) for an http.request message, and for every other
\* http message, whether its stripped type has one segment or several,
\* fails with TypeMismatch naming that stripped type.
C15_HttpReceiveRequestTypes ==
    (/\ last.op = "http_receive_request"
     /\ Head(last.args.request[1].type) = "http")
        => LET request == last.args.request[1] IN
           IF request.type = <<"http", "request">>
           THEN /\ last.exc = "none"
                /\ last.ret = Some([protocol |-> "http", type |-> "request",
                                    data |-> [body |-> request.body,
                                              more_body |-> request.more_body]])
           ELSE /\ last.exc = "TypeMismatch"
                /\ last.detail = Some(Tail(request.type))
                /\ last.ret = None

(* The first k messages of the inbox are http.request chunks, the k-th     *)
(* being the first whose more_body is false.                               *)
ChunksUpTo(inbox, k) ==
    /\ k \in 1..Len(inbox)
    /\ \A i \in 1..k : /\ inbox[i].type = <<"http", "request">>
                       /\ inbox[i].more_body = (i < k)

(* The bodies of the first k messages, joined in order.                    *)
RECURSIVE BodyOfChunks(_, _)
BodyOfChunks(inbox, k) ==
    IF k = 0 THEN <<>> ELSE BodyOfChunks(inbox, k - 1) \o inbox[k].body

\* C16: when the transport delivers request chunks c1..ck, ck being the
\* first with more_body false, stream_requests yields exactly c1..ck as
\* Requests in order with one receive per element and none after ck, and
\* get_requests_body returns a Request whose body is the chunks' bodies
\* joined in order and whose more_body is false.
C16_StreamAndCollectRequests ==
    (last.op \in {"stream_requests", "get_requests_body"}) =>
        \A k \in 1..Len(last.args.inbox) :
            ChunksUpTo(last.args.inbox, k) =>
                /\ last.exc = "none"
                /\ last.ret.pulled = k
                /\ nreceive = last.pre.nreceive + k
                /\ (last.op = "stream_requests") =>
                      /\ Len(last.ret.yielded) = k
                      /\ \A i \in 1..k :
                            last.ret.yielded[i] =
                                [protocol |-> "http", type |-> "request",
                                 data |-> [body |-> last.args.inbox[i].body,
                                           more_body |-> (i < k)]]
                /\ (last.op = "get_requests_body") =>
                      last.ret.request =
                          Some([protocol |-> "http", type |-> "request",
                                data |-> [body |-> BodyOfChunks(last.args.inbox, k),
                                          more_body |-> FALSE]])

(* Two chunks have been collected into one body, a third message being     *)
(* left with the transport.                                                *)
C16_Witness ==
    /\ last.op = "get_requests_body"
    /\ Len(last.args.inbox) = 3
    /\ ChunksUpTo(last.args.inbox, 2)
    /\ last.ret.pulled = 2
    /\ last.ret.request # None
    /\ last.ret.request[1].data.body = <<104, 105, 33>>

---------------------------------------------------------------------------
(* Properties of rendering.                                                *)

\* C17: every rendered HTTP response, whatever its variant, status, headers
\* and body, is exactly one start message first, followed by at least one
\* body message, the last body message having more_body false and every
\* earlier one more_body true.
C17_HttpRenderingShape ==
    (last.op = "render_messages" /\ last.args.response.kind \in HttpKinds) =>
        LET messages == last.ret.messages
            n == Len(messages)
        IN  /\ n >= 2
            /\ messages[1].type = <<"http", "response", "start">>
            /\ \A i \in 2..n :
                  /\ messages[i].type = <<"http", "response", "body">>
                  /\ messages[i].more_body = (i < n)

(* A stream of two chunks has been rendered to four messages.              *)
C17_Witness ==
    /\ last.op = "render_messages"
    /\ last.args.response.kind = "StreamResponse"
    /\ Len(last.args.response.body) = 2
    /\ Len(last.ret.messages) = 4
    /\ last.ret.messages[3].more_body
    /\ ~last.ret.messages[4].more_body

\* C18: rendering a StreamResponse of N chunks yields exactly N+2
\* messages: one start{status, headers}, one body message per chunk in the
\* chunk order with more_body true, then one body message with empty
\* content and more_body false; each chunk is taken from the sequence once.
C18_StreamRendering ==
    (last.op = "render_messages" /\ last.args.response.kind = "StreamResponse") =>
        LET response == last.args.response
            messages == last.ret.messages
            N == Len(response.body)
        IN  /\ Len(messages) = N + 2
            /\ messages[1] = [type |-> <<"http", "response", "start">>,
                              status |-> response.status,
                              headers |-> response.headers]
            /\ \A i \in 1..N :
                  messages[i + 1] = [type |-> <<"http", "response", "body">>,
                                     body |-> response.body[i],
                                     more_body |-> TRUE]
            /\ messages[N + 2] = [type |-> <<"http", "response", "body">>,
                                  body |-> <<>>, more_body |-> FALSE]
            /\ last.ret.taken = N

(* A stream of two different chunks has been rendered.                     *)
C18_Witness ==
    /\ last.op = "render_messages"
    /\ last.args.response.kind = "StreamResponse"
    /\ last.args.response.body = << <<72>>, <<87, 33>> >>
    /\ last.ret.messages[2].body = <<72>>
    /\ last.ret.messages[3].body = <<87, 33>>
    /\ last.ret.taken = 2

\* C19: every rendered WebSocket response is exactly one message:
\* websocket.accept{subprotocol, headers} for an AcceptResponse,
\* websocket.send{bytes, text} for a MessageResponse, websocket.close{code}
\* for a CloseResponse, whose code is 1000 when none was given.
C19_WebSocketRenderingSingleMessage ==
    (last.op = "render_messages" /\ last.args.response.kind \in WebSocketKinds) =>
        LET response == last.args.response
            messages == last.ret.messages
        IN  /\ Len(messages) = 1
            /\ (response.kind = "AcceptResponse") =>
                  messages[1] = [type |-> <<"websocket", "accept">>,
                                 subprotocol |-> response.subprotocol,
                                 headers |-> response.headers]
            /\ (response.kind = "MessageResponse") =>
                  messages[1] = [type |-> <<"websocket", "send">>,
                                 bytes |-> response.bytes,
                                 text |-> response.text]
            /\ (response.kind = "CloseResponse") =>
                  /\ messages[1] = [type |-> <<"websocket", "close">>,
                                    code |-> response.code]
                  /\ ("code" \in DOMAIN last.args) =>
                        messages[1].code = IF last.args.code = None THEN 1000
                                           ELSE last.args.code[1]

(* A CloseResponse given the code 1011 has been rendered.                  *)
C19_Witness ==
    /\ last.op = "render_messages"
    /\ last.args.response.kind = "CloseResponse"
    /\ "code" \in DOMAIN last.args
    /\ last.args.code = Some(1011)
    /\ last.ret.messages = <<[type |-> <<"websocket", "close">>, code |-> 1011]>>

\* C20: the rendered headers of a text response are the caller-supplied
\* headers in insertion order with lower-cased names, then exactly one
\* content-length header, then exactly one content-type header; rendering
\* the same response again gives the same list and leaves the response's
\* own headers as they were.
C20_HeaderRenderingOrderedIdempotent ==
    (last.op = "render_headers") =>
        LET headers == last.args.response.headers
            rendered == last.ret.rendered
            n == Len(headers)
        IN  /\ Len(rendered) = n + 2
            /\ \A i \in 1..n :
                  rendered[i] = <<EncodeLatin1(Lower(headers[i][1])),
                                  EncodeLatin1(headers[i][2])>>
            /\ rendered[n + 1][1] = ContentLength
            /\ rendered[n + 2][1] = ContentType
            /\ (last.args.previous # None) => (rendered = last.args.previous[1])
            /\ last.ret.response.headers = headers

---------------------------------------------------------------------------
(* Properties of the application.                                          *)

\* C11: for a scope whose type has no registered connection class,
\* make_connection fails with ProtocolUnknown; inside a call of the
\* application that error reaches the caller of the application, no
\* connection exists, no route is invoked and no message is sent.
C11_UnknownProtocolPropagates ==
    /\ (last.op = "make_connection" /\ last.args.scope.type \notin {"http", "websocket"})
           => (last.exc = "ProtocolUnknown" /\ conn = NoConn)
    /\ (last.op = "Xiao" /\ last.args.scope.type \notin {"http", "websocket"})
           => /\ last.exc = "ProtocolUnknown"
              /\ conn = NoConn
              /\ sent = <<>>
              /\ nreceive = 0
              /\ last.ret.invoked = None
              /\ last.ret.logged = 0

(* The application, holding a route for the scope's path, has been called  *)
(* with a scope of unknown type and has failed.                            *)
C11_Witness ==
    /\ last.op = "Xiao"
    /\ last.args.scope.type = "unknown"
    /\ last.args.scope.path = "/"
    /\ Len(last.args.routes) >= 1
    /\ last.args.routes[1].path = "/"
    /\ last.exc = "ProtocolUnknown"
    /\ sent = <<>>

---------------------------------------------------------------------------
(* The value of the header called name in a rendered header list: the      *)
(* values of every pair of that name, in order.                            *)
HeaderValues(headers, name) ==
    SelectSeq(headers, LAMBDA h : h[1] = name)

(* C21: for every text response, the rendered content-length header is the *)
(* number of bytes of the rendered body, for byte bodies and for text      *)
(* bodies, text whose encoding takes more than one byte per character      *)
(* included.                                                               *)
C21_ContentLengthIsRenderedBodyLength ==
    last.op = "render_response" =>
        HeaderValues(last.ret.headers, ContentLength)
            = << <<ContentLength, IntToStr(Len(last.ret.body))>> >>

---------------------------------------------------------------------------
(* Properties of the routes.                                               *)

(* The protocol of a route, if it has one.                                 *)
ProtocolOf(route) ==
    IF route.cls = "Route" THEN route.protocol ELSE Some(RouteProtocol(route.cls))

(* C22: calling any route (Route, HttpRoute, WebSocketRoute) with a        *)
(* connection whose protocol differs from the route's protocol fails with  *)
(* ProtocolMismatch before any transport receive or send is performed and  *)
(* before any endpoint is invoked.                                         *)
C22_RouteRejectsMismatch ==
    (/\ last.op = "Route"
     /\ ProtocolOf(last.args.route) # None
     /\ ProtocolOf(last.args.route) # Some(conn.protocol)) =>
        /\ last.exc = "ProtocolMismatch"
        /\ nreceive = 0
        /\ sent = <<>>
        /\ last.ret.endpoint = None
        /\ connection_status = NewK(conn.cls).connection_status
        /\ connection_state = NewK(conn.cls).connection_state

(* A base route with protocol "websocket" has refused an HTTP connection.  *)
C22_Witness ==
    /\ last.op = "Route"
    /\ last.args.route.cls = "Route"
    /\ last.args.route.protocol = Some("websocket")
    /\ conn.protocol = "http"
    /\ last.exc = "ProtocolMismatch"

(* The nine methods HttpRoute has an endpoint for.                         *)
StandardMethods ==
    {"GET", "HEAD", "POST", "PUT", "DELETE", "CONNECT", "OPTIONS", "TRACE", "PATCH"}

(* C23: an HttpRoute with no endpoint overridden, invoked with an HTTP      *)
(* connection whose method is any of GET, HEAD, POST, PUT, DELETE, CONNECT, *)
(* OPTIONS, TRACE, PATCH and whose transport delivers an http.request,      *)
(* performs exactly one receive, then sends exactly start{405} and          *)
(* body{b"Method Not Allowed", more_body=False}, and returns without        *)
(* raising.                                                                 *)
C23_DefaultEndpointsSend405 ==
    (/\ last.op = "Route"
     /\ last.args.route.cls = "HttpRoute"
     /\ last.args.route.behaviour = "default"
     /\ IsHttp
     /\ last.args.scope.method \in StandardMethods
     /\ last.args.message.type = <<"http", "request">>) =>
        /\ last.exc = "none"
        /\ nreceive = 1
        /\ sent = << [type |-> <<"http", "response", "start">>,
                      status |-> 405, headers |-> <<>>],
                     [type |-> <<"http", "response", "body">>,
                      body |-> <<77, 101, 116, 104, 111, 100, 32, 78, 111, 116, 32,
                                 65, 108, 108, 111, 119, 101, 100>>,
                      more_body |-> FALSE] >>
        /\ last.ret.endpoint = Some(MethodLower[last.args.scope.method])

(* The default trace endpoint has answered a TRACE request with 405.       *)
C23_Witness ==
    /\ last.op = "Route"
    /\ last.args.route.cls = "HttpRoute"
    /\ last.args.route.behaviour = "default"
    /\ IsHttp
    /\ last.args.scope.method = "TRACE"
    /\ last.args.message.type = <<"http", "request">>
    /\ last.args.message.more_body
    /\ last.exc = "none"
    /\ Len(sent) = 2
    /\ sent[1].status = 405

(* C24: when HttpRoute cannot resolve an endpoint for the connection's      *)
(* lowercased method, it sends exactly one 501 response, start{501} and     *)
(* body{b"Not Implemented", more_body=False}, performs no transport         *)
(* receive, invokes no endpoint, and re-raises the lookup failure to its    *)
(* caller.                                                                  *)
C24_UnresolvedMethodSends501 ==
    (/\ last.op = "Route"
     /\ last.args.route.cls = "HttpRoute"
     /\ IsHttp
     /\ get_endpoint(last.args.route, MethodLower[last.args.scope.method]).exc
           # "none") =>
        /\ last.exc = "AttributeError"
        /\ nreceive = 0
        /\ sent = << [type |-> <<"http", "response", "start">>,
                      status |-> 501, headers |-> <<>>],
                     [type |-> <<"http", "response", "body">>,
                      body |-> <<78, 111, 116, 32, 73, 109, 112, 108, 101, 109,
                                 101, 110, 116, 101, 100>>,
                      more_body |-> FALSE] >>
        /\ last.ret.endpoint = None

(* A route with an overridden endpoint has answered method BREW with 501.   *)
C24_Witness ==
    /\ last.op = "Route"
    /\ last.args.route.cls = "HttpRoute"
    /\ last.args.route.behaviour = "responds_raises"
    /\ IsHttp
    /\ last.args.scope.method = "BREW"
    /\ last.exc = "AttributeError"
    /\ Len(sent) = 2
    /\ sent[1].status = 501

(* The failure of the second try block of HttpRoute.__call__: that of      *)
(* receive_request, or else that of the resolved endpoint.                  *)
HttpRouteFailure(route, scope, message) ==
    IF Http_receive_request("http", message).exc # "none"
    THEN Http_receive_request("http", message).exc
    ELSE IF MethodLower[scope.method] \notin Endpoints(route.cls) THEN "TypeError"
    ELSE IF route.behaviour # "default" THEN "EndpointError"
    ELSE "none"

(* C25: when receiving the request or running the resolved endpoint fails   *)
(* inside HttpRoute, the route sends a 500 response, start{500} and         *)
(* body{b"Internal Server Error", more_body=False}, and then the same       *)
(* failure propagates to the route's caller; the route never returns        *)
(* normally after such a failure.                                           *)
C25_FailureSends500AndPropagates ==
    (/\ last.op = "Route"
     /\ last.args.route.cls = "HttpRoute"
     /\ IsHttp
     /\ get_endpoint(last.args.route, MethodLower[last.args.scope.method]).exc = "none"
     /\ HttpRouteFailure(last.args.route, last.args.scope, last.args.message)
           # "none") =>
        /\ last.exc = HttpRouteFailure(last.args.route, last.args.scope,
                                       last.args.message)
        /\ nreceive = 1
        /\ Len(sent) >= 2
        /\ SubSeq(sent, Len(sent) - 1, Len(sent))
              = << [type |-> <<"http", "response", "start">>,
                    status |-> 500, headers |-> <<>>],
                   [type |-> <<"http", "response", "body">>,
                    body |-> <<73, 110, 116, 101, 114, 110, 97, 108, 32, 83, 101,
                               114, 118, 101, 114, 32, 69, 114, 114, 111, 114>>,
                    more_body |-> FALSE] >>
        /\ \A i \in 1..(Len(sent) - 2) : sent[i].type = <<"http", "response", "start">>
                                             => sent[i].status # 500

(* A failed receive, and an endpoint that raised, have each been answered   *)
(* with 500 and re-raised.                                                  *)
C25_Witness ==
    /\ last.op = "Route"
    /\ last.args.route.cls = "HttpRoute"
    /\ IsHttp
    /\ last.args.scope.method = "POST"
    /\ \/ /\ last.args.message.type = <<"http", "disconnect">>
          /\ last.exc = "TypeMismatch"
       \/ /\ last.args.message.type = <<"http", "request">>
          /\ last.args.route.behaviour = "raises"
          /\ last.exc = "EndpointError"
    /\ Len(sent) = 2
    /\ sent[1].status = 500

(* C26: a WebSocketRoute whose connect endpoint is not overridden, invoked  *)
(* on a connection whose transport delivers websocket.connect, sends        *)
(* exactly one message {type: websocket.accept, subprotocol: None,          *)
(* headers: []}, ends with the connection state connected (the              *)
(* connected/accepted state), and returns without raising; the              *)
(* un-overridden receive and disconnect endpoints send nothing.             *)
C26_DefaultWebSocketEndpoints ==
    (/\ last.op = "Route"
     /\ last.args.route.cls = "WebSocketRoute"
     /\ last.args.route.behaviour = "default"
     /\ IsWebSocket) =>
        /\ last.args.message.type = <<"websocket", "connect">> =>
              /\ last.exc = "none"
              /\ nreceive = 1
              /\ sent = << [type |-> <<"websocket", "accept">>,
                            subprotocol |-> None, headers |-> <<>>] >>
              /\ Lifecycle(connection_state) = "connected"
              /\ last.ret.endpoint = Some("connect")
        /\ last.args.message.type \in {<<"websocket", "receive">>,
                                        <<"websocket", "disconnect">>} =>
              /\ last.exc = "none"
              /\ nreceive = 1
              /\ sent = <<>>
              /\ last.ret.endpoint = Some(last.args.message.type[2])

(* The default connect endpoint has accepted the connection.                *)
C26_Witness ==
    /\ last.op = "Route"
    /\ last.args.route.cls = "WebSocketRoute"
    /\ last.args.route.behaviour = "default"
    /\ IsWebSocket
    /\ last.args.message.type = <<"websocket", "connect">>
    /\ last.exc = "none"
    /\ Len(sent) = 1
    /\ sent[1].type = <<"websocket", "accept">>

(* The failure of the try block of WebSocketRoute.__call__: that of         *)
(* receive_request, of get_endpoint, or else that of the endpoint.          *)
WebSocketRouteFailure(route, message) ==
    IF Len(message.type) # 2 THEN "ValueError"
    ELSE IF message.type[2] \notin Endpoints(route.cls) \cup OtherAttributes(route.cls)
    THEN "AttributeError"
    ELSE IF message.type[2] \notin Endpoints(route.cls) THEN "TypeError"
    ELSE IF route.behaviour # "default" THEN "EndpointError"
    ELSE "none"

---------------------------------------------------------------------------
(* Properties of the application.                                          *)

(* The two messages of the application's 404 response.                     *)
NotFoundMessages ==
    << [type |-> <<"http", "response", "start">>, status |-> 404,
        headers |-> << <<ContentLength, <<57>>>>,    \* b"9"
                       <<ContentType,
                         <<116, 101, 120, 116, 47, 112, 108, 97, 105, 110, 59, 32,
                           99, 104, 97, 114, 115, 101, 116, 61, 117, 116, 102, 45,
                           56>>>> >>],    \* b"text/plain; charset=utf-8"
       [type |-> <<"http", "response", "body">>,
        body |-> <<78, 111, 116, 32, 70, 111, 117, 110, 100>>,
        more_body |-> FALSE] >>

(* C28: when no route of the application matches the scope's path, the     *)
(* application sends exactly one 404 response (start{404, content-length   *)
(* 9, content-type text/plain; charset=utf-8} then body{b"Not Found",      *)
(* more_body=False}), invokes no route and no endpoint, and returns        *)
(* without raising.                                                        *)
C28_UnmatchedPathSends404 ==
    (/\ last.op = "Xiao"
     /\ last.args.scope.type \in DOMAIN protocols
     /\ \A i \in 1..Len(last.args.routes) :
           PathMatch(last.args.routes[i].path, last.args.scope.path) = None) =>
        /\ last.exc = "none"
        /\ sent = NotFoundMessages
        /\ nreceive = 0
        /\ last.ret.invoked = None
        /\ last.ret.endpoint = None
        /\ last.ret.logged = 0

(* C29: when the invocation of the matched route fails with any exception, *)
(* the application logs that failure exactly once, does not re-raise it to *)
(* the transport, does not try any later route, and sends nothing further  *)
(* (in particular no 404) before returning.                                *)
C29_RouteFailureLoggedAndSwallowed ==
    (/\ last.op = "Xiao"
     /\ last.ret.invoked # None
     /\ last.ret.route_exc # "none") =>
        /\ last.exc = "none"
        /\ last.ret.logged = 1
        /\ last.ret.route_exc
              = Route_call(last.args.routes[last.ret.invoked[1]], conn,
                           NewK(conn.cls), last.args.message).exc
        /\ sent = Route_call(last.args.routes[last.ret.invoked[1]], conn,
                             NewK(conn.cls), last.args.message).k.sent
        /\ \A i \in 1..Len(sent) :
              sent[i].type = <<"http", "response", "start">> => sent[i].status # 404

(* The first of two matching routes has failed in its endpoint, after a    *)
(* 500 response; the failure was logged and the call returned.             *)
C29_Witness ==
    /\ last.op = "Xiao"
    /\ Len(last.args.routes) = 2
    /\ PathMatch(last.args.routes[2].path, last.args.scope.path) # None
    /\ last.ret.invoked = Some(1)
    /\ last.ret.route_exc = "EndpointError"
    /\ last.ret.logged = 1
    /\ last.exc = "none"
    /\ Len(sent) = 2
    /\ sent[1].status = 500

(* The routes of a list whose pattern matches a path.                      *)
Matching(routes, path) ==
    {i \in 1..Len(routes) : PathMatch(routes[i].path, path) # None}

(* C30: for every scope and every ordered route list, the application      *)
(* invokes at most one route per call, and when at least one route matches *)
(* the scope's path the route invoked is the first matching one in list    *)
(* order, handed the connection built for that scope with the path         *)
(* parameters extracted by that match already set.                         *)
C30_FirstMatchingRouteInvoked ==
    (last.op = "Xiao" /\ last.args.scope.type \in DOMAIN protocols) =>
        LET matching == Matching(last.args.routes, last.args.scope.path) IN
        /\ matching = {} => last.ret.invoked = None
        /\ matching # {} =>
              /\ last.ret.invoked # None
              /\ last.ret.invoked[1] \in matching
              /\ \A j \in matching : last.ret.invoked[1] <= j
              /\ conn.cls = protocols[last.args.scope.type]
              /\ conn.scope = last.args.scope
              /\ conn.receive = last.args.receive
              /\ conn.send = last.args.send
              /\ Some(conn.path_parameters)
                    = PathMatch(last.args.routes[last.ret.invoked[1]].path,
                                last.args.scope.path)
              /\ last.ret.route_exc
                    = Route_call(last.args.routes[last.ret.invoked[1]], conn,
                                 NewK(conn.cls), last.args.message).exc

(* The second route is the first that matches /post/1; it was invoked with *)
(* the parameter id set, and the later matching route was not.             *)
C30_Witness ==
    /\ last.op = "Xiao"
    /\ last.args.scope.path = "/post/1"
    /\ Len(last.args.routes) = 2
    /\ last.args.routes[1].path = "/"
    /\ last.args.routes[2].path = "/post/{id}"
    /\ last.ret.invoked = Some(2)
    /\ conn.path_parameters = [id |-> "1"]
    /\ last.ret.endpoint # None

---------------------------------------------------------------------------
(* Properties over whole behaviours of the connections.                    *)

(* C31: in every reachable state of a WebSocketConnection, after any       *)
(* sequence of receive_request, accept_connection, close_connection,       *)
(* send_bytes, send_text and send_response calls, connection_state is one  *)
(* of connecting, connected, disconnected, and it is connecting            *)
(* immediately after construction.                                         *)
C31_WebSocketStateValues ==
    IsWebSocket =>
        /\ connection_state \in {"connecting", "connected", "disconnected"}
        /\ last.op = "make_connection" => connection_state = "connecting"

(* Whether a log is a prefix of one response on the wire: one start        *)
(* message, body messages with more_body true, one body message with       *)
(* more_body false.                                                        *)
ResponsePrefix(log) ==
    \A i \in 1..Len(log) :
        /\ (log[i].type = <<"http", "response", "start">>) <=> (i = 1)
        /\ i > 1 => log[i].type = <<"http", "response", "body">>
        /\ (i > 1 /\ i < Len(log)) => log[i].more_body

(* C33: for every sequence of operations on one HttpConnection             *)
(* (send_start, send_body, send_response in any order, failing calls       *)
(* included), the messages delivered to the transport form a prefix of:    *)
(* one start message, then zero or more body messages with more_body true, *)
(* then one body message with more_body false; no message is ever          *)
(* delivered after the body message with more_body false and no second     *)
(* start message is ever delivered.                                        *)
C33_HttpWireIsOneResponse ==
    IsHttp => ResponsePrefix(sent)

---------------------------------------------------------------------------
(* Properties over whole calls of the routes and the application.          *)

(* The number of http.response.start messages in a log.                    *)
Starts(log) ==
    Cardinality({i \in 1..Len(log) : log[i].type = <<"http", "response", "start">>})

(* C34: during one HttpRoute invocation at most one http.response.start    *)
(* message reaches the transport, for every endpoint behaviour: in         *)
(* particular when the endpoint has already sent part or all of a response *)
(* and then raises, the error path does not put a second start message     *)
(* (the 500 response) on the wire.                                         *)
C34_OneStartPerHttpRouteCall ==
    (last.op = "Route" /\ last.args.route.cls = "HttpRoute" /\ IsHttp) =>
        Starts(sent) <= 1

(* C35: no message is delivered to the transport of a WebSocket connection *)
(* once its state is disconnected (after a disconnect message was received *)
(* or a close was sent): this holds for accept_connection,                 *)
(* close_connection, send_bytes, send_text and send_response.              *)
C35_NothingSentOnceDisconnected ==
    (/\ IsWebSocket
     /\ last.op \in {"accept_connection", "close_connection", "send_bytes",
                     "send_text", "send_response"}
     /\ Lifecycle(last.pre.connection_state) = "disconnected") =>
        sent = last.pre.sent

(* C38: after close_connection has completed on a WebSocketConnection, a   *)
(* following receive_request fails with InvalidConnectionState without     *)
(* invoking the transport receive primitive.                               *)
C38_ReceiveAfterCloseFails ==
    (/\ IsWebSocket
     /\ last.op = "receive_request"
     /\ last.pre.connection_state = "closed") =>
        /\ last.exc = "InvalidConnectionState"
        /\ nreceive = last.pre.nreceive

(* C37: for every HTTP method whose lowercase form is not one of the nine   *)
(* endpoint names, including one that names another attribute of the route, *)
(* HttpRoute sends 501 Not Implemented, performs no receive and calls       *)
(* nothing as an endpoint.                                                  *)
C37_NonEndpointMethodSends501 ==
    (/\ last.op = "Route"
     /\ last.args.route.cls = "HttpRoute"
     /\ IsHttp
     /\ MethodLower[last.args.scope.method] \notin Endpoints("HttpRoute")) =>
        /\ nreceive = 0
        /\ Len(sent) = 2
        /\ sent[1] = [type |-> <<"http", "response", "start">>,
                      status |-> 501, headers |-> <<>>]
        /\ sent[2].type = <<"http", "response", "body">>
        /\ ~sent[2].more_body
        /\ last.ret.endpoint = None

(* C39: every call of the application with an HTTP scope has delivered one  *)
(* complete response to the transport (a start message followed by a body   *)
(* message with more_body false) when it returns, whichever routes are      *)
(* registered.                                                              *)
C39_HttpCallDeliversResponse ==
    (last.op = "Xiao" /\ last.args.scope.type = "http") =>
        HasCompleteResponse(sent)

(* C40: for every caller-supplied header mapping of a text response,        *)
(* including one that already contains a content-type header, header        *)
(* rendering leaves each caller-supplied header's value exactly as          *)
(* supplied, and the charset suffix "; charset=<charset>" is attached to    *)
(* the appended content-type header built from the response's media type,   *)
(* which is the last rendered header.                                       *)
C40_CharsetOnAppendedContentType ==
    (last.op = "render_headers") =>
        LET response == last.args.response
            rendered == last.ret.rendered
            n == Len(response.headers)
        IN  /\ Len(rendered) >= n + 1
            /\ \A i \in 1..n :
                  rendered[i][2] = EncodeLatin1(response.headers[i][2])
            /\ rendered[Len(rendered)] =
                  <<ContentType,
                    EncodeLatin1(media_type(response.kind)) \o CharsetEquals
                    \o EncodeLatin1(CharsetName(response.charset))>>

Alone(t) ==
    Xiao_call(application[1].routes, calls[t].scope, t, t, calls[t].message)

IsPrefix(s, t) == Len(s) <= Len(t) /\ s = SubSeq(t, 1, Len(s))

(* The transport and the connection of call t are as in the run alone: the  *)
(* transport has got a prefix of the messages, all of them once the call    *)
(* has returned, and the connection has the scope and the path parameters   *)
(* of its own call and, at the end, the lifecycle state of the run alone.   *)
AsAlone(t) ==
    calls[t].pc # "idle" =>
        /\ IsPrefix(transports[t].sent, Alone(t).k.sent)
        /\ transports[t].nreceive <= Alone(t).k.nreceive
        /\ connections[calls[t].connection].c = Alone(t).connection
        /\ calls[t].pc = "done" =>
              /\ transports[t].sent = Alone(t).k.sent
              /\ transports[t].nreceive = Alone(t).k.nreceive
              /\ connections[calls[t].connection].connection_status
                    = Alone(t).k.connection_status
              /\ connections[calls[t].connection].connection_state
                    = Alone(t).k.connection_state

(* A step that is not a step of call t leaves the transport and the         *)
(* connection of call t as they are.                                        *)
OwnStepsOnly(t) ==
    (calls'[t] = calls[t]) =>
        /\ transports'[t] = transports[t]
        /\ calls[t].pc # "idle" =>
              connections'[calls[t].connection] = connections[calls[t].connection]

(* C32: when two connections are handled through the same application and  *)
(* the same Route instance with their receive and send steps interleaved in *)
(* any order, each connection's transport receives exactly the message      *)
(* sequence it would receive if handled alone, and each connection's        *)
(* lifecycle state, scope and path parameters are changed only by steps of  *)
(* its own handling.                                                        *)
C32_InterleavedCallsAreIndependent ==
    /\ [](\A t \in CallIds : AsAlone(t))
    /\ [][\A t \in CallIds : OwnStepsOnly(t)]_vars

(* Two calls through the same route are in flight, each between two of its  *)
(* sends, with different path parameters.                                   *)
C32_Witness ==
    /\ \A t \in CallIds :
          /\ calls[t].pc = "running"
          /\ calls[t].route = 1
          /\ transports[t].sent # <<>>
          /\ Len(transports[t].sent) < Len(Alone(t).k.sent)
    /\ connections[calls[1].connection].c.path_parameters
          # connections[calls[2].connection].c.path_parameters

====
